---- MODULE Spec2Model ----
(***************************************************************************)
(* A model of the HTTomo task runner (src/httomo/task_runner.py): the      *)
(* reslice planner, the platform sectioner, the chunk sizer and the        *)
(* run_tasks / run_method loop, with the data classes of                   *)
(* src/httomo/common.py.                                                   *)
(*                                                                         *)
(* Seven specifications share the variables:                               *)
(*   SpecPlan   the planning prefix of run_tasks (lines 97-104) over every *)
(*              pipeline of up to MaxMethods steps;                        *)
(*   SpecChunk  _update_max_slices over every section of up to             *)
(*              MaxSectionMethods steps;                                   *)
(*   Spec       the whole of run_tasks, from the planning to the end of    *)
(*              the method loop, over pipelines of up to MaxRunMethods     *)
(*              steps;                                                     *)
(*   SpecWrapper  HttomolibgpuWrapper.calc_max_slices of                    *)
(*              src/httomo/wrappers_class.py on its own;                   *)
(*   SpecReslice  the reslice transport between two steps, over arrays of  *)
(*              up to MaxAxisLength slices on up to MaxWorkers processes;  *)
(*   SpecExecute  one call of a wrapper method of BaseWrapper executed by  *)
(*              up to MaxWorkers workers, the centering wrapper with its   *)
(*              broadcast included;                                        *)
(*   SpecWorkers  run_tasks executed by up to MaxWorkers workers that meet *)
(*              at the reslices.                                           *)
(***************************************************************************)
EXTENDS Integers, Sequences, FiniteSets, TLC

VARIABLES
    pc,                     \* the position of the control thread
    method_funcs,           \* run_tasks: List[MethodFunc], the loader first
    reslice_bool_list,      \* reslice_info.reslice_bool_list
    platform_sections,      \* run_tasks: List[PlatformSection]
    section,                \* _update_max_slices: its PlatformSection argument
    process_data_shape,     \* _update_max_slices: shape argument, or None
    input_data_type,        \* _update_max_slices: dtype argument, or None
    chunk_ret,              \* _update_max_slices: what the call gave back
    estimator_calls,        \* the calls made to the steps' calc_max_slices
    memory_queries,         \* the calls made to _get_available_gpu_memory
    yaml_conf,              \* the tasks of the YAML file, the loader first
    methods_database,       \* the pattern get_method_info gives for each step
    dict_datasets_pipeline, \* run_tasks: the dataset registry
    glob_stats,             \* run_tasks: per task, the statistics per dataset
    reslice_count,          \* reslice_info.count
    reslice_dir,            \* reslice_info.reslice_dir
    idx,                    \* run_tasks: the index of the task to run next
    loader_calls,           \* the calls made to the loader
    wrapper_calls,          \* the calls made to the steps' wrapper_func
    reslice_calls,          \* the calls made to reslice / reslice_filebased
    postrun_calls,          \* the calls made to postrun_method
    run_method_calls,       \* the calls run_tasks made to run_method
    wrp,                    \* calc_max_slices: the wrapper it is called on
    calc_args,              \* calc_max_slices: its four arguments
    meta_calls,             \* the calls made to meta.calc_max_slices
    gpu_enabled,            \* httomo.cupy_utils.gpu_enabled of the process
    calc_ret,               \* calc_max_slices: what the call gave back
    nprocs,                 \* reslice: the number of worker processes
    shards,                 \* reslice: the array each worker holds
    loaded_shards,          \* reslice: the arrays the workers started with
    comm_size,              \* comm.size: the number of worker processes
    exec_call,              \* the wrapper call every worker is executing
    worker,                 \* per rank: where the worker is and what it did
    bcast_msg               \* what the root of comm.bcast has sent, <<>> if not

plan_vars == <<method_funcs, reslice_bool_list, platform_sections>>
chunk_vars == <<section, process_data_shape, input_data_type, chunk_ret,
                estimator_calls, memory_queries>>
run_vars == <<dict_datasets_pipeline, glob_stats, reslice_count, reslice_dir,
              idx, loader_calls, wrapper_calls, reslice_calls, postrun_calls,
              run_method_calls>>
conf_vars == <<yaml_conf, methods_database>>
wrapper_vars == <<wrp, calc_args, meta_calls, calc_ret, gpu_enabled>>
transport_vars == <<nprocs, shards, loaded_shards>>
mpi_vars == <<comm_size, exec_call, worker, bcast_msg>>
vars == <<pc, conf_vars, plan_vars, chunk_vars, run_vars, wrapper_vars,
          transport_vars, mpi_vars>>

(***************************************************************************)
(* Bounds of the model.                                                    *)
(***************************************************************************)
MaxMethods == 5
MaxSectionMethods == 2
MaxRunMethods == 2
MaxWorkers == 3
MaxAxisLength == 3
MaxCommSize == 16

(***************************************************************************)
(* httomo.utils.Pattern and Python's None.                                 *)
(***************************************************************************)
Pattern == {"projection", "sinogram", "all"}
None == [none |-> TRUE]

(***************************************************************************)
(* common.MethodFunc.  name stands for the step's identity (module_name    *)
(* and method_func); it is the step's position in the YAML file.           *)
(***************************************************************************)
\* method_name is method_func.__name__, needs_stats whether the signature of
\* method_func has a glob_stats parameter, returns what the wrapper gives
\* back: an "array", a "tuple" of values or "none".
MethodFunc(name, pattern, gpu, is_loader) ==
    [name |-> name, pattern |-> pattern, gpu |-> gpu,
     reslice_ahead |-> FALSE, is_loader |-> is_loader,
     calc_max_slices |-> None, wrapper_func |-> None,
     method_name |-> "method", parameters |-> <<>>,
     needs_stats |-> FALSE, returns |-> "array"]

PlatformSection(gpu, pattern, max_slices, methods) ==
    [gpu |-> gpu, pattern |-> pattern, max_slices |-> max_slices,
     methods |-> methods]

(***************************************************************************)
(* _check_if_should_reslice                                                *)
(***************************************************************************)
\* the test of lines 646-648 without its Pattern.all clause
ShouldResliceIgnoringAll(pattern, current_pattern) ==
    pattern # current_pattern

\* the test of lines 646-648 passing only for a step that needs sinograms
ShouldResliceToSinogram(pattern, current_pattern) ==
    (pattern # current_pattern) /\ (pattern = "sinogram")

\* lines 646-648: the step's pattern differs from the current one and is
\* not Pattern.all
ShouldReslice(pattern, current_pattern) ==
    (pattern # current_pattern) /\ (pattern # "all")

\* line 651 run for every step, marked or not
CurrentPatternFollowsStep(pattern, current_pattern) == pattern

\* lines 646-651: current_pattern after a step; only a marked step sets it
CurrentPatternAfter(pattern, current_pattern) ==
    IF ShouldReslice(pattern, current_pattern) THEN pattern
    ELSE current_pattern

\* line 652 building the marked step from the defaults of MethodFunc
ReplaceFromDefaults(method) ==
    [method EXCEPT !.reslice_ahead = TRUE, !.gpu = FALSE]

\* line 652: dataclasses.replace(methods[x], reslice_ahead=True), a new
\* record with the other fields of methods[x]
Replace(method) == [method EXCEPT !.reslice_ahead = TRUE]

\* the loop of lines 645-652, from index x on
RECURSIVE ResliceLoop(_, _, _, _)
ResliceLoop(methods, x, current_pattern, ret_methods) ==
    IF x > Len(methods) THEN ret_methods
    ELSE ResliceLoop(methods, x + 1,
             CurrentPatternAfter(methods[x].pattern, current_pattern),
             IF ShouldReslice(methods[x].pattern, current_pattern)
             THEN [ret_methods EXCEPT ![x] = Replace(methods[x])]
             ELSE ret_methods)

_check_if_should_reslice(methods) ==
    ResliceLoop(methods, 1, methods[1].pattern, methods)

\* the caller's list after the call: line 642 copies the list and line 652
\* builds a new record, so the writes of the loop do not reach it
MethodsAfterCall(methods) == methods

(***************************************************************************)
(* _determine_platform_sections                                            *)
(***************************************************************************)
\* the test of lines 712-716 without its `method.pattern == Pattern.all`
SameSectionStrict(method, current_gpu, current_pattern) ==
    /\ method.gpu = current_gpu
    /\ \/ method.pattern = current_pattern
       \/ current_pattern = "all"

\* the test of lines 712-716 without its `method.gpu == current_gpu`
SameSectionAnyDevice(method, current_gpu, current_pattern) ==
    \/ method.pattern = current_pattern
    \/ method.pattern = "all"
    \/ current_pattern = "all"

\* lines 712-716: the step extends the current section
SameSection(method, current_gpu, current_pattern) ==
    /\ method.gpu = current_gpu
    /\ \/ method.pattern = current_pattern
       \/ method.pattern = "all"
       \/ current_pattern = "all"

\* lines 718-719 left out: the section's pattern is never tightened
KeepPattern(current_pattern, method) == current_pattern

\* lines 718-719: a section whose pattern is still All adopts the step's
TightenPattern(current_pattern, method) ==
    IF current_pattern = "all" /\ method.pattern # "all"
    THEN method.pattern
    ELSE current_pattern

\* line 729 with the breaking step lost
NewSectionMethodsEmpty(method) == <<>>

\* line 729: the breaking step seeds the next section
NewSectionMethods(method) == <<method>>

\* the loop of lines 711-731 from index k on, then lines 733-737
RECURSIVE SectionLoop(_, _, _, _, _, _)
SectionLoop(funcs, k, current_gpu, current_pattern, methods, ret) ==
    IF k > Len(funcs)
    THEN Append(ret, PlatformSection(current_gpu, current_pattern, 0, methods))
    ELSE LET method == funcs[k] IN
         IF SameSection(method, current_gpu, current_pattern)
         THEN SectionLoop(funcs, k + 1, current_gpu,
                          TightenPattern(current_pattern, method),
                          Append(methods, method), ret)
         ELSE SectionLoop(funcs, k + 1, method.gpu, method.pattern,
                          NewSectionMethods(method),
                          Append(ret, PlatformSection(current_gpu,
                                          current_pattern, 0, methods)))

_determine_platform_sections(funcs) ==
    SectionLoop(funcs, 1, funcs[1].gpu, funcs[1].pattern, <<>>, <<>>)

(***************************************************************************)
(* The wrappers of wrappers_class.py and their calc_max_slices              *)
(***************************************************************************)
\* func.meta of an httomolibgpu method: whether it runs on the CPU and on
\* the GPU; signature is the method's, the sequence of its parameters
Meta(cpu, gpu, signature) ==
    [cpu |-> cpu, gpu |-> gpu, signature |-> signature]

\* wrappers_class.BaseWrapper.__init__, lines 23-30
BaseWrapper == [cupyrun |-> FALSE, dict_params |-> <<>>]

\* TomoPyWrapper.__init__ and HttomolibWrapper.__init__ leave cupyrun as
\* BaseWrapper sets it
TomoPyWrapper == BaseWrapper
HttomolibWrapper == BaseWrapper

\* HttomolibgpuWrapper.__init__, lines 333-338
HttomolibgpuWrapper(meta) ==
    [cupyrun |-> meta.gpu, dict_params |-> <<>>, meta |-> meta]

\* lines 382-384: the bound method wrapper_init_module.calc_max_slices
CalcMaxSlices(is_httomolibgpu, wrapper_init_module) ==
    IF ~is_httomolibgpu THEN None ELSE [self |-> wrapper_init_module]

\* a parameter of a method's signature: its name and, when it has one
\* (par.default != Parameter.empty), its default
Param(name, has_default, default) ==
    [name |-> name, has_default |-> has_default, default |-> default]

\* lines 354-358: the defaults of the signature, by parameter name
DefaultArgs(sig) ==
    [name \in {sig[i].name : i \in {j \in DOMAIN sig : sig[j].has_default}}
        |-> sig[CHOOSE i \in DOMAIN sig : sig[i].name = name].default]

\* line 359 with the two dicts the other way round
MergeDefaultsLast(default_args, dict_params) ==
    [k \in DOMAIN default_args \cup DOMAIN dict_params |->
        IF k \in DOMAIN default_args THEN default_args[k]
        ELSE dict_params[k]]

\* line 359: {**default_args, **self.dict_params}
Merge(default_args, dict_params) ==
    [k \in DOMAIN default_args \cup DOMAIN dict_params |->
        IF k \in DOMAIN dict_params THEN dict_params[k]
        ELSE default_args[k]]

\* lines 340-362; estimate is what self.meta.calc_max_slices gives back
calc_max_slices(self, args, estimate) ==
    IF ~self.cupyrun
    THEN [ret |-> <<1000000000, args.dtype, args.non_slice_dims_shape>>,
          calls |-> <<>>]
    ELSE [ret |-> estimate,
          calls |-> <<[args |-> <<args.slice_dim, args.non_slice_dims_shape,
                                  args.dtype, args.available_memory>>,
                       kwargs |-> Merge(DefaultArgs(self.meta.signature),
                                        self.dict_params)]>>]

(***************************************************************************)
(* _update_max_slices                                                      *)
(***************************************************************************)
\* numpy dtypes, by name and bytes per element
Uint16 == [name |-> "uint16", itemsize |-> 2]
Float32 == [name |-> "float32", itemsize |-> 4]
Dtypes == {Uint16, Float32}

\* A step's calc_max_slices is None or a callable
\*   (slice_dim, non_slice_dims_shape, dtype, available_memory)
\*       -> (max slices, output dtype, output non-slice shape).
\* The callables are the estimators of the wrapped library; one is given
\* here by the cap it answers, the dtype it casts the data to (None keeps
\* the input's) and how much it crops from each non-slice dimension.
Caps == {0, 45, 120}
Estimators == [slices : Caps, cast : {None, Float32}, crop : {0, 10}]

\* the calc_max_slices of an httomolibgpu step whose method does not run
\* on the GPU: the bound method of its wrapper, which answers by itself
\* (wrappers_class.py lines 349-350)
HostEstimator ==
    CalcMaxSlices(TRUE, HttomolibgpuWrapper(Meta(TRUE, FALSE, <<>>)))

CallEstimator(e, slice_dim, non_slice_dims_shape, dtype, available_memory) ==
    IF "self" \in DOMAIN e
    THEN LET r == calc_max_slices(e.self,
                      [slice_dim |-> slice_dim,
                       non_slice_dims_shape |-> non_slice_dims_shape,
                       dtype |-> dtype,
                       available_memory |-> available_memory], None).ret
         IN [slices_estimated |-> r[1], data_type |-> r[2],
             output_dims |-> r[3]]
    ELSE [slices_estimated |-> e.slices,
          data_type |-> IF e.cast = None THEN dtype ELSE e.cast,
          output_dims |-> <<non_slice_dims_shape[1] - e.crop,
                            non_slice_dims_shape[2] - e.crop>>]

\* the values _get_available_gpu_memory(10.0) may answer
AvailableMemory == {4096, 8192}

Min2(a, b) == IF a <= b THEN a ELSE b
Max2(a, b) == IF a >= b THEN a ELSE b
MinOfSeq(s) == CHOOSE m \in {s[i] : i \in DOMAIN s} :
                   \A i \in DOMAIN s : m <= s[i]

\* lines 749-755 without the sinogram branch
SliceDimOfProjection(pattern) == 0

\* lines 749-755: the slicing axis of a pattern (0-based, as in the code)
SliceDim(pattern) == IF pattern = "sinogram" THEN 1 ELSE 0

\* lines 751 and 755: the two dimensions that are not sliced
NonSliceDimsShape(pattern, shape) ==
    IF pattern = "sinogram" THEN <<shape[1], shape[3]>>
    ELSE <<shape[2], shape[3]>>

\* line 774 recording the estimate itself, without the axis length
RecordEstimateUnclipped(max_slices, slices_estimated) == slices_estimated

\* line 774: min(max_slices, slices_estimated)
RecordEstimate(max_slices, slices_estimated) ==
    Min2(max_slices, slices_estimated)

\* line 779 taking the first method's entry alone
SectionMaxSlicesFirst(max_slices_methods) == max_slices_methods[1]

\* line 779: min(max_slices_methods)
SectionMaxSlices(max_slices_methods) == MinOfSeq(max_slices_methods)

\* the loop of lines 769-778 from the k-th method of the section on; st
\* holds the locals idx, non_slice_dims_shape, data_type, output_dims and
\* max_slices_methods, and the calls made so far
RECURSIVE EstimateLoop(_, _, _, _, _, _)
EstimateLoop(methods, k, slice_dim, max_slices, available_memory, st) ==
    IF k > Len(methods) THEN st
    ELSE LET m == methods[k] IN
         IF m.calc_max_slices # None
         THEN LET r == CallEstimator(m.calc_max_slices, slice_dim,
                           st.non_slice_dims_shape, st.data_type,
                           available_memory)
              IN EstimateLoop(methods, k + 1, slice_dim, max_slices,
                     available_memory,
                     [idx |-> st.idx + 1,
                      non_slice_dims_shape |-> r.output_dims,
                      data_type |-> r.data_type,
                      output_dims |-> r.output_dims,
                      max_slices_methods |->
                          [st.max_slices_methods EXCEPT ![st.idx + 1] =
                              RecordEstimate(max_slices, r.slices_estimated)],
                      calls |-> Append(st.calls,
                          [method |-> m.name,
                           slice_dim |-> slice_dim,
                           non_slice_dims_shape |-> st.non_slice_dims_shape,
                           dtype |-> st.data_type,
                           available_memory |-> available_memory,
                           result |-> r])])
         ELSE EstimateLoop(methods, k + 1, slice_dim, max_slices,
                     available_memory,
                     [st EXCEPT !.non_slice_dims_shape = st.output_dims])

\* the CPU branch of lines 780-783 asking the estimators all the same
CpuSectionEstimated(sec, max_slices, available_memory, st0) ==
    LET st == EstimateLoop(sec.methods, 1, SliceDim(sec.pattern), max_slices,
                           available_memory, st0)
    IN [section |-> [sec EXCEPT !.max_slices =
                        SectionMaxSlices(st.max_slices_methods)],
        ret |-> <<st.data_type, st.output_dims>>,
        calls |-> st.calls, queries |-> 1]

\* lines 780-783: a CPU section takes the length of the slicing axis
CpuSection(sec, max_slices, available_memory, st0) ==
    [section |-> [sec EXCEPT !.max_slices = max_slices],
     ret |-> <<st0.data_type, st0.output_dims>>,
     calls |-> <<>>, queries |-> 0]

\* line 784 returning the dtype and the shape the section was entered with
GpuSectionReturnsInputs(sec, max_slices, available_memory, st0) ==
    LET st == EstimateLoop(sec.methods, 1, SliceDim(sec.pattern), max_slices,
                           available_memory, st0)
    IN [section |-> [sec EXCEPT !.max_slices =
                        SectionMaxSlices(st.max_slices_methods)],
        ret |-> <<st0.data_type, st0.output_dims>>,
        calls |-> st.calls, queries |-> 1]

\* lines 764-779: a GPU section takes the least of its methods' entries
GpuSection(sec, max_slices, available_memory, st0) ==
    LET st == EstimateLoop(sec.methods, 1, SliceDim(sec.pattern), max_slices,
                           available_memory, st0)
    IN [section |-> [sec EXCEPT !.max_slices =
                        SectionMaxSlices(st.max_slices_methods)],
        ret |-> <<st.data_type, st.output_dims>>,
        calls |-> st.calls, queries |-> 1]

\* lines 747-748 leaving the section as if never computed
EarlyReturnResets(sec) ==
    [section |-> [sec EXCEPT !.max_slices = 0], ret |-> None,
     calls |-> <<>>, queries |-> 0]

\* lines 747-748: the call returns at once; the section is not touched,
\* nothing is asked and None is returned
EarlyReturn(sec) ==
    [section |-> sec, ret |-> None, calls |-> <<>>, queries |-> 0]

\* _update_max_slices(section, process_data_shape, input_data_type), with
\* available_memory the answer of the device should it be asked: the
\* section as the call leaves it, the value returned, the estimator calls
\* and the number of memory queries made
_update_max_slices(sec, shape, dtype, available_memory) ==
    IF shape = None \/ dtype = None
    THEN EarlyReturn(sec)
    ELSE LET slice_dim == SliceDim(sec.pattern)
             max_slices == shape[slice_dim + 1]
             st0 == [idx |-> 0,
                     non_slice_dims_shape |->
                         NonSliceDimsShape(sec.pattern, shape),
                     data_type |-> dtype,
                     output_dims |-> NonSliceDimsShape(sec.pattern, shape),
                     max_slices_methods |->
                         [i \in 1..Len(sec.methods) |-> max_slices],
                     calls |-> <<>>]
         IN IF sec.gpu
            THEN GpuSection(sec, max_slices, available_memory, st0)
            ELSE CpuSection(sec, max_slices, available_memory, st0)

(***************************************************************************)
(* run_tasks: the planning, lines 97-104                                   *)
(***************************************************************************)
\* what get_method_info(module, method, "pattern") may answer for a step;
\* "other" stands for every string that names no pattern
PatternTokens == Pattern \cup {"other"}

\* _assign_pattern_to_method, lines 684-701; called with a valid token
_assign_pattern_to_method(method_function, pattern_str) ==
    [method_function EXCEPT !.pattern = pattern_str]

\* lines 98-99: the steps get their patterns in order; the first token that
\* names no pattern raises ValueError and leaves the later steps untouched
AssignPatterns ==
    /\ pc = "assign_patterns"
    /\ LET tokens == methods_database
          bad == {i \in DOMAIN method_funcs : tokens[i] \notin Pattern}
              stop == IF bad = {} THEN Len(method_funcs) + 1
                  ELSE CHOOSE i \in bad : \A j \in bad : i <= j
      IN /\ method_funcs' =
                [i \in DOMAIN method_funcs |->
                    IF i < stop
                    THEN _assign_pattern_to_method(method_funcs[i], tokens[i])
                    ELSE method_funcs[i]]
         /\ pc' = IF bad = {} THEN "check_reslice"
                  ELSE "raised_invalid_pattern"
    /\ UNCHANGED <<conf_vars, mpi_vars, reslice_bool_list, platform_sections,
                   chunk_vars, wrapper_vars,
                   transport_vars, run_vars>>

\* lines 101-102
CheckReslice ==
    /\ pc = "check_reslice"
    /\ method_funcs' = _check_if_should_reslice(method_funcs)
    /\ reslice_bool_list' =
           [i \in DOMAIN method_funcs |-> method_funcs'[i].reslice_ahead]
    /\ pc' = "sections"
    /\ UNCHANGED <<conf_vars, mpi_vars, platform_sections, chunk_vars, wrapper_vars,
                   transport_vars, run_vars>>

\* line 104; with the loader alone, method_funcs[1:] is empty and line 708
\* raises IndexError
DetermineSections ==
    /\ pc = "sections"
    /\ IF Len(method_funcs) = 1
       THEN /\ pc' = "raised_index_error"
            /\ UNCHANGED platform_sections
       ELSE /\ platform_sections' =
                   _determine_platform_sections(Tail(method_funcs))
            /\ pc' = "check_sweeps"
    /\ UNCHANGED <<conf_vars, mpi_vars, method_funcs, reslice_bool_list,
                   chunk_vars, wrapper_vars,
                   transport_vars, run_vars>>

\* _get_method_funcs, lines 321-392: the loader first, then the steps of the
\* YAML file; every pattern is Pattern.all, the loader is a CPU step and a
\* step runs on the GPU when its httomolibgpu method says so
PlanPipelines ==
    UNION {{[i \in 1..n |-> MethodFunc(i, "all", i > 1 /\ gpu[i], i = 1)] :
                gpu \in [1..n -> BOOLEAN]} : n \in 1..MaxMethods}

NoChunk ==
    /\ section = None
    /\ process_data_shape = None
    /\ input_data_type = None
    /\ chunk_ret = None
    /\ estimator_calls = <<>>
    /\ memory_queries = 0

\* calc_max_slices of a wrapper is not being called
NoWrapper ==
    /\ wrp = None
    /\ calc_args = None
    /\ meta_calls = <<>>
    /\ calc_ret = None

\* no array is being resliced
NoTransport ==
    /\ nprocs = 0
    /\ shards = <<>>
    /\ loaded_shards = <<>>

\* no wrapper call is being executed by the workers
NoMpi ==
    /\ comm_size = 0
    /\ exec_call = None
    /\ worker = <<>>
    /\ bcast_msg = <<>>

\* lines 92-95 starting the count of reslices at one
InitialCountOne == 0 + 1

\* lines 92-95: ResliceInfo(count=0, ...)
InitialCount == 0

\* run_tasks has not run a task yet
NoRun ==
    /\ dict_datasets_pipeline = <<>>
    /\ glob_stats = <<>>
    /\ reslice_count = InitialCount
    /\ reslice_dir = None
    /\ idx = 0
    /\ loader_calls = 0
    /\ wrapper_calls = <<>>
    /\ reslice_calls = <<>>
    /\ postrun_calls = <<>>
    /\ run_method_calls = <<>>

InitPlan ==
    /\ pc = "assign_patterns"
    /\ NoMpi
    /\ method_funcs \in PlanPipelines
    /\ yaml_conf = <<>>
    /\ methods_database \in [DOMAIN method_funcs -> PatternTokens]
    /\ reslice_bool_list = None
    /\ platform_sections = <<>>
    /\ NoChunk
    /\ NoWrapper
    /\ gpu_enabled \in BOOLEAN
    /\ NoTransport
    /\ NoRun

NextPlan == AssignPatterns \/ CheckReslice \/ DetermineSections

SpecPlan == InitPlan /\ [][NextPlan]_vars

(***************************************************************************)
(* _update_max_slices as an operation of its own                           *)
(***************************************************************************)
\* the shapes of the loaded data: (angles, detector rows, detector columns)
Shapes == {<<130, 100, 160>>}

\* max_slices of a section before the call: 0 until computed, or what an
\* earlier call has left
PreviousMaxSlices == {0, 7}

\* the sections handed to _update_max_slices: as the sectioner builds them,
\* the methods of a section share its gpu flag and agree with its pattern
ChunkSections ==
    UNION {{PlatformSection(gpu, pattern, max_slices,
                [i \in 1..n |->
                    [MethodFunc(i, pattern, gpu, FALSE)
                        EXCEPT !.calc_max_slices = calc[i]]]) :
                gpu \in BOOLEAN, pattern \in Pattern,
                max_slices \in PreviousMaxSlices,
                calc \in [1..n -> Estimators \cup {None, HostEstimator}]} :
           n \in 1..MaxSectionMethods}

UpdateMaxSlices ==
    /\ pc = "update_max_slices"
    /\ \E available_memory \in AvailableMemory :
          LET r == _update_max_slices(section, process_data_shape,
                                      input_data_type, available_memory)
          IN /\ section' = r.section
             /\ chunk_ret' = r.ret
             /\ estimator_calls' = r.calls
             /\ memory_queries' = r.queries
    /\ pc' = "updated"
    /\ UNCHANGED <<process_data_shape, input_data_type, conf_vars, mpi_vars,
                   plan_vars, run_vars, wrapper_vars, transport_vars>>

InitChunk ==
    /\ pc = "update_max_slices"
    /\ NoMpi
    /\ section \in ChunkSections
    /\ \/ process_data_shape \in Shapes
       \/ process_data_shape = None
    /\ \/ input_data_type \in Dtypes
       \/ input_data_type = None
    /\ chunk_ret = None
    /\ estimator_calls = <<>>
    /\ memory_queries = 0
    /\ method_funcs = <<>>
    /\ yaml_conf = <<>>
    /\ methods_database = <<>>
    /\ reslice_bool_list = None
    /\ platform_sections = <<>>
    /\ NoRun
    /\ NoWrapper
    /\ gpu_enabled \in BOOLEAN
    /\ NoTransport

NextChunk == UpdateMaxSlices

SpecChunk == InitChunk /\ [][NextChunk]_vars

(***************************************************************************)
(* run_tasks: the parameter sweep check, the loader and the method loop    *)
(***************************************************************************)
\* A value of a YAML parameter: a dataset name ("str"), a list of names
\* ("list"), a number ("scalar") or a Python tuple, which declares a
\* parameter sweep ("tuple"); val holds the value's items.
Str(name) == [kind |-> "str", val |-> <<name>>]
List(names) == [kind |-> "list", val |-> names]
Scalar(v) == [kind |-> "scalar", val |-> <<v>>]
Tuple(vals) == [kind |-> "tuple", val |-> vals]

\* An entry of the dataset registry: None, one array, or a Python list of
\* arrays.  `type(x) is list` is IsList(x).
Single(a) == [list |-> FALSE, v |-> a]
Swept(arrs) == [list |-> TRUE, v |-> arrs]
IsList(x) == x # None /\ x.list

\* Arrays are told apart by how they were made: loaded by the loader, given
\* back by the wrapper of task `task` run on `of` with the swept parameter
\* at `sweep` (part k of it when the wrapper gives back a tuple), or `of`
\* resliced ahead of task `task`.
Array(op, task, sweep, part, of) ==
    [op |-> op, task |-> task, sweep |-> sweep, part |-> part, of |-> of]
Loaded(what) == Array(what, 1, <<>>, 0, None)

\* d[key] = value on a Python dict
DictSet(d, key, value) ==
    [k \in DOMAIN d \cup {key} |-> IF k = key THEN value ELSE d[k]]

\* _check_params_for_sweep wrongly answering whether a tuple is present
HasSweep(params) ==
    IF \E k \in DOMAIN params : params[k].kind = "tuple" THEN 1 ELSE 0

\* _check_params_for_sweep, lines 657-665
_check_params_for_sweep(params) ==
    Cardinality({k \in DOMAIN params : params[k].kind = "tuple"})

RECURSIVE SumSeq(_)
SumSeq(ns) == IF ns = <<>> THEN 0 ELSE Head(ns) + SumSeq(Tail(ns))

\* lines 109-110
NoOfSweeps ==
    SumSeq([i \in DOMAIN method_funcs |->
               _check_params_for_sweep(method_funcs[i].parameters)])

\* lines 112-118 letting two sweeps through
TooManySweepsOffByOne(no_of_sweeps) == no_of_sweeps > 2

\* line 112
TooManySweeps(no_of_sweeps) == no_of_sweeps > 1

\* lines 106-118
CheckSweeps ==
    /\ pc = "check_sweeps"
    /\ pc' = IF TooManySweeps(NoOfSweeps) THEN "raised_too_many_sweeps"
             ELSE "loader"
    /\ UNCHANGED <<conf_vars, mpi_vars, plan_vars, chunk_vars, wrapper_vars,
                   transport_vars, run_vars>>

\* lines 131-165: the loader is called and what it loaded is stored under
\* its `name` parameter, "flats" and "darks"
RunLoader ==
    /\ pc = "loader"
    /\ loader_calls' = loader_calls + 1
    /\ dict_datasets_pipeline' =
           DictSet(DictSet(DictSet(dict_datasets_pipeline,
                       method_funcs[1].parameters["name"].val[1],
                       Single(Loaded("data"))),
                   "flats", Single(Loaded("flats"))),
               "darks", Single(Loaded("darks")))
    /\ idx' = 1
    /\ pc' = "methods"
    /\ UNCHANGED <<conf_vars, mpi_vars, plan_vars, chunk_vars, wrapper_vars,
                   transport_vars, glob_stats,
                   reslice_count, reslice_dir, wrapper_calls, reslice_calls,
                   postrun_calls, run_method_calls>>

(***************************************************************************)
(* prerun_method and postrun_method are imported from httomo.prerun and    *)
(* httomo.postrun; what they do is taken from the specification's          *)
(* Run-Method Context and per-step procedure.                              *)
(***************************************************************************)
\* httomo.utils._get_slicing_dim: the (1-based) dimension a pattern slices
_get_slicing_dim(pattern) == IF pattern = "sinogram" THEN 2 ELSE 1

DatasetParams == {"data_in", "data_out", "data_in_multi", "data_out_multi",
                  "name"}

\* the Reslice State's counter after prerun_method: incremented when the
\* plan marks the step for a reslice
CountAfterPrerun(count, should_reslice) ==
    IF should_reslice THEN count + 1 ELSE count

\* the Run-Method Context of a task: the input and output dataset names,
\* the swept parameter (a tuple-valued one) and its values, whether the
\* plan marks the task for a reslice, and the slicing dimensions
prerun_method(task_idx, current_func, prev_func, bool_list) ==
    LET params == current_func.parameters
        multi == "data_in_multi" \in DOMAIN params
        data_in == IF multi THEN params["data_in_multi"].val
                   ELSE params["data_in"].val
        data_out == IF multi
                    THEN [k \in DOMAIN params["data_out_multi"].val |->
                             Str(params["data_out_multi"].val[k])]
                    ELSE IF "data_out" \in DOMAIN params
                         THEN <<params["data_out"]>>
                         ELSE <<params["data_in"]>>
        swept == {k \in DOMAIN params : params[k].kind = "tuple"}
        sweep_name == IF swept = {} THEN "" ELSE CHOOSE k \in swept : TRUE
    IN [task_idx |-> task_idx,
        data_in |-> data_in,
        data_out |-> data_out,
        param_sweep_name |-> sweep_name,
        param_sweep_vals |-> IF swept = {} THEN <<>>
                             ELSE params[sweep_name].val,
        should_reslice |-> bool_list[task_idx + 1],
        current_slice_dim |-> _get_slicing_dim(prev_func.pattern),
        next_slice_dim |-> _get_slicing_dim(current_func.pattern)]

(***************************************************************************)
(* run_method, lines 395-610.  st holds what the call changes: the         *)
(* registry (dict), the task's statistics (stats), the calls made to the   *)
(* wrapper, the reslice transport and postrun_method, the list `out` of    *)
(* lines 511-512, and the error raised ("" for none).                      *)
(***************************************************************************)
\* what func_wrapper gives back for a step run on arr
func_wrapper(current_func, task_idx, sweep, arr) ==
    IF current_func.returns = "array"
    THEN Array("run", task_idx, sweep, 0, arr)
    ELSE IF current_func.returns = "tuple"
         THEN <<Array("run", task_idx, sweep, 1, arr),
                Array("run", task_idx, sweep, 2, arr)>>
         ELSE None

\* BaseWrapper._transfer_data, wrappers_class.py lines 37-62, on host
\* arrays: where the arrays it returns are. Without gpu_enabled they are
\* returned as they came; otherwise xp.asarray puts them on the device for
\* a wrapper with cupyrun and xp.asnumpy leaves them on the host
_transfer_data(self, enabled) ==
    IF ~enabled THEN "host"
    ELSE IF self.cupyrun THEN "device" ELSE "host"

\* a call of func_wrapper: what it is handed (the method's name, the swept
\* value, the data, the statistics), where run_method stands when it
\* makes the call (the input dataset, the index i of the array, and the
\* registry as it then is), and where the wrapper method puts the data
\* before it calls the library's method
WrapperCall(current_func, task_idx, sweep, arr, stats, at) ==
    [task_idx |-> task_idx, method_name |-> current_func.method_name,
     sweep |-> sweep, data |-> arr, glob_stats |-> stats,
     in_dataset |-> at.in_dataset, i |-> at.i, registry |-> at.registry,
     data_on |-> _transfer_data(current_func.wrapper_func.self, gpu_enabled)]

\* lines 570-579 taking the swept values last to first
SweepOrderReversed(vals) == [k \in DOMAIN vals |-> vals[Len(vals) + 1 - k]]

\* line 570: the values of the sweep in the order of the loop
SweepOrder(vals) == vals

\* lines 570-579 from the k-th value on: one call per value, each result
\* appended to out
RECURSIVE SweepLoop(_, _, _, _, _, _, _)
SweepLoop(current_func, info, arr, stats, k, at, st) ==
    IF k > Len(info.param_sweep_vals) THEN st
    ELSE LET val == SweepOrder(info.param_sweep_vals)[k]
             res == func_wrapper(current_func, info.task_idx, <<val>>, arr)
         IN SweepLoop(current_func, info, arr, stats, k + 1, at,
                [st EXCEPT
                    !.wrapper_calls = Append(@,
                        WrapperCall(current_func, info.task_idx, <<val>>,
                                    arr, stats, at)),
                    !.out = Append(@, res)])

\* lines 589-592: zip(res, out_dataset) from the k-th pair on
RECURSIVE StoreTuple(_, _, _, _)
StoreTuple(res, names, k, dict) ==
    IF k > Len(res) \/ k > Len(names) THEN dict
    ELSE StoreTuple(res, names, k + 1,
                    DictSet(dict, names[k], Single(res[k])))

\* lines 528-550: the array after the reslice and the registry holding it
Resliced(info, arr) == Array("reslice", info.task_idx, <<>>, 0, arr)

\* lines 545-549 left out
NotStored(dict, in_dataset, i, resliced_data) == dict

\* lines 545-549
StoreResliced(dict, in_dataset, i, resliced_data) ==
    IF IsList(dict[in_dataset])
    THEN [dict EXCEPT ![in_dataset].v[i + 1] = resliced_data]
    ELSE [dict EXCEPT ![in_dataset] = Single(resliced_data)]

\* line 530 taking the staged transport whatever the staging location
FileBasedAlways(dir) == TRUE

\* line 530: reslice_filebased unless reslice_info.reslice_dir is None
FileBased(dir) == dir # None

\* line 557 keeping the last record only
ReplaceStats(glob_stats_of_task, in_dataset, stats) ==
    [glob_stats_of_task EXCEPT ![in_dataset] = <<stats>>]

\* line 557: glob_stats[in_dataset].append(stats)
AppendStats(glob_stats_of_task, in_dataset, stats) ==
    [glob_stats_of_task EXCEPT ![in_dataset] = Append(@, stats)]

\* lines 521-599 for the arrays from the i-th on (i counts from 0)
RECURSIVE ArrayLoop(_, _, _, _, _, _, _, _)
ArrayLoop(current_func, info, in_dataset, out_dataset, arrs, i, dir, st) ==
    IF i >= Len(arrs) \/ st.raised # "" THEN st
    ELSE
    LET is_saver == current_func.method_name = "save_to_images"
        arr == IF info.should_reslice THEN Resliced(info, arrs[i + 1])
               ELSE arrs[i + 1]
        \* lines 528-550
        st1 == IF info.should_reslice
               THEN [st EXCEPT
                       !.reslice_calls = Append(@,
                           [task_idx |-> info.task_idx,
                            filebased |-> FileBased(dir),
                            data |-> arrs[i + 1],
                            current_slice_dim |-> info.current_slice_dim,
                            next_slice_dim |-> info.next_slice_dim]),
                       !.dict = StoreResliced(@, in_dataset, i, arr)]
               ELSE st
        \* lines 554-559
        stats == IF current_func.needs_stats THEN [stats_of |-> arr]
                 ELSE None
        st2 == IF current_func.needs_stats
               THEN [st1 EXCEPT
                       !.stats = AppendStats(@, in_dataset, stats)]
               ELSE st1
        at == [in_dataset |-> in_dataset, i |-> i, registry |-> st2.dict]
        \* lines 561-599
        st3 ==
          IF is_saver
          THEN [st2 EXCEPT !.wrapper_calls = Append(@,
                    WrapperCall(current_func, info.task_idx, <<>>, arr,
                                stats, at))]
          ELSE IF info.param_sweep_name # ""
          THEN LET sw == SweepLoop(current_func, info, arr, stats, 1, at,
                                   st2)
               IN [sw EXCEPT !.dict = DictSet(@, out_dataset.val[1],
                                              Swept(sw.out))]
          ELSE LET res == func_wrapper(current_func, info.task_idx, <<>>, arr)
                   called == [st2 EXCEPT !.wrapper_calls = Append(@,
                                 WrapperCall(current_func, info.task_idx,
                                             <<>>, arr, stats, at))]
                   name == out_dataset.val[1]
               IN IF current_func.returns = "tuple"
                  THEN [called EXCEPT !.dict =
                           StoreTuple(res, out_dataset.val, 1, @)]
                  ELSE IF IsList(called.dict[name])
                  THEN IF i + 1 > Len(called.dict[name].v)
                       THEN [called EXCEPT !.raised = "IndexError"]
                       ELSE [called EXCEPT !.dict[name].v[i + 1] = res]
                  ELSE [called EXCEPT !.dict[name] = Single(res)]
    IN ArrayLoop(current_func, info, in_dataset, out_dataset, arrs, i + 1,
                 dir, st3)

\* lines 479-480 taking the input once for each swept value
InputArraysPerSweepValue(current_func, info, entry) ==
    IF current_func.method_name # "save_to_images"
       /\ info.param_sweep_name # ""
    THEN [k \in DOMAIN info.param_sweep_vals |-> entry.v]
    ELSE IF IsList(entry) THEN entry.v ELSE <<entry.v>>

\* lines 469-489: the arrays the step runs on for one input dataset
InputArrays(current_func, info, entry) ==
    IF current_func.method_name # "save_to_images"
       /\ info.param_sweep_name # ""
    THEN <<entry.v>>
    ELSE IF IsList(entry) THEN entry.v ELSE <<entry.v>>

\* line 501 taking the first entry of data_out for every input dataset
OutDatasetFirst(info, in_dataset_idx) == info.data_out[1]

\* line 501: out_dataset = run_method_info.data_out[in_dataset_idx]
OutDataset(info, in_dataset_idx) == info.data_out[in_dataset_idx + 1]

\* lines 601-604 never returning
SaverReturnsNever(current_func) == FALSE

\* lines 601-604: after the arrays of an input dataset a saver returns
SaverReturns(current_func) == current_func.method_name = "save_to_images"

\* lines 462-608 for the input datasets from the d-th on (d counts from 0)
RECURSIVE DatasetLoop(_, _, _, _, _)
DatasetLoop(current_func, info, d, dir, st) ==
    IF d >= Len(info.data_in) \/ st.raised # "" \/ st.returned THEN st
    ELSE
    LET in_dataset == info.data_in[d + 1]
        out_dataset == OutDataset(info, d)
        is_saver == current_func.method_name = "save_to_images"
        arrs == InputArrays(current_func, info, st.dict[in_dataset])
    IN IF is_saver /\ info.param_sweep_name # ""
       THEN [st EXCEPT !.raised = "ValueError_sweep_on_saver"]
       ELSE IF out_dataset.kind = "list" /\ info.param_sweep_name # ""
       THEN [st EXCEPT !.raised = "ValueError_sweep_on_multiple_outputs"]
       ELSE LET done == ArrayLoop(current_func, info, in_dataset,
                                  out_dataset, arrs, 0, dir,
                                  [st EXCEPT !.out = <<>>])
            IN IF done.raised # "" THEN done
               ELSE IF SaverReturns(current_func)
               THEN [done EXCEPT !.returned = TRUE]
               ELSE DatasetLoop(current_func, info, d + 1, dir,
                        [done EXCEPT !.postrun_calls = Append(@,
                            [task_idx |-> info.task_idx,
                             out_dataset |-> out_dataset])])

\* what a call is handed and changes, before it has changed any of it
Entry(dict, stats, wcalls, rcalls, pcalls) ==
    [dict |-> dict, stats |-> stats, wrapper_calls |-> wcalls,
     reslice_calls |-> rcalls, postrun_calls |-> pcalls,
     out |-> <<>>, raised |-> "", returned |-> FALSE]

\* run_method(task_idx, ..., current_func, prev_func, ...)
run_method(task_idx, current_func, prev_func, bool_list, dir, st) ==
    DatasetLoop(current_func,
                prerun_method(task_idx, current_func, prev_func, bool_list),
                0, dir, st)

\* line 208 giving None to the last two steps
NextFuncNoneEarly(funcs, i) ==
    IF i < Len(funcs) - 2 THEN funcs[i + 2] ELSE None

\* line 208: the step after task i (i as in the code, the loader being 0),
\* None for the last
NextFunc(funcs, i) ==
    IF i < Len(funcs) - 1 THEN funcs[i + 2] ELSE None

\* line 207: the step before task i
PrevFunc(funcs, i) == funcs[i]

\* lines 183-213: one turn of the loop over method_funcs[1:]
RunMethod ==
    /\ pc = "methods"
    /\ idx < Len(method_funcs)
    /\ LET info == prerun_method(idx, method_funcs[idx + 1],
                                 PrevFunc(method_funcs, idx),
                                 reslice_bool_list)
           r == run_method(idx, method_funcs[idx + 1],
                           PrevFunc(method_funcs, idx), reslice_bool_list, reslice_dir,
                           Entry(dict_datasets_pipeline, glob_stats[idx + 1],
                                 wrapper_calls, reslice_calls,
                                 postrun_calls))
       IN /\ dict_datasets_pipeline' = r.dict
          /\ glob_stats' = [glob_stats EXCEPT ![idx + 1] = r.stats]
          /\ wrapper_calls' = r.wrapper_calls
          /\ reslice_calls' = r.reslice_calls
          /\ postrun_calls' = r.postrun_calls
          /\ run_method_calls' = Append(run_method_calls,
                 [task_idx |-> idx,
                  current_func |-> method_funcs[idx + 1],
                  prev_func |-> PrevFunc(method_funcs, idx),
                  next_func |-> NextFunc(method_funcs, idx)])
          /\ reslice_count' =
                 CountAfterPrerun(reslice_count, info.should_reslice)
          /\ pc' = IF r.raised # "" THEN "raised_" \o r.raised ELSE "methods"
          /\ idx' = IF r.raised # "" THEN idx ELSE idx + 1
    /\ UNCHANGED <<conf_vars, mpi_vars, plan_vars, chunk_vars, wrapper_vars,
                   transport_vars, reslice_dir,
                   loader_calls>>

\* lines 224-234: the loop is over and the number of reslices is reported
Finish ==
    /\ pc = "methods"
    /\ idx = Len(method_funcs)
    /\ pc' = "done"
    /\ UNCHANGED <<conf_vars, mpi_vars, plan_vars, chunk_vars, wrapper_vars,
                   transport_vars, run_vars>>

(***************************************************************************)
(* The pipelines run_tasks is run on                                       *)
(***************************************************************************)
\* the values of a swept parameter; out of order, to tell the orders apart
SweepValues == <<30, 10, 20>>

\* the two free parameters of a step: none, one or both of them swept
NoSweep == [p |-> Scalar(1), q |-> Scalar(2)]
OneSweep == [p |-> Tuple(SweepValues), q |-> Scalar(2)]
TwoSweeps == [p |-> Tuple(SweepValues), q |-> Tuple(SweepValues)]

\* one task of the YAML file with what the methods database and the
\* wrapped method say about it
Conf(method_name, db_pattern, needs_stats, returns, datasets) ==
    [method_name |-> method_name, db_pattern |-> db_pattern,
     needs_stats |-> needs_stats, returns |-> returns,
     datasets |-> datasets]

InOut(in, out) == [data_in |-> Str(in), data_out |-> Str(out)]

\* the kinds of steps: array to array in each pattern, writing its input
\* dataset or another one; a step that needs global statistics and the
\* saver, each with a pattern that is never resliced to and with one that
\* is; a step with several outputs; a step with several inputs
StepConfs ==
    {Conf("normalize", "projection", FALSE, "array", InOut("tomo", "tomo")),
     Conf("normalize", "projection", FALSE, "array", InOut("tomo", "out")),
     Conf("remove_stripe", "sinogram", FALSE, "array", InOut("tomo", "tomo")),
     Conf("rescale", "all", TRUE, "array", InOut("tomo", "tomo")),
     Conf("rescale", "sinogram", TRUE, "array", InOut("tomo", "tomo")),
     Conf("save_to_images", "all", FALSE, "none", [data_in |-> Str("tomo")]),
     Conf("save_to_images", "sinogram", FALSE, "none",
          [data_in |-> Str("tomo")]),
     Conf("find_center_360", "sinogram", FALSE, "tuple",
          [data_in |-> Str("tomo"),
           data_out |-> List(<<"cor", "overlap">>)]),
     Conf("normalize", "projection", FALSE, "array",
          [data_in_multi |-> List(<<"tomo", "flats">>),
           data_out_multi |-> List(<<"tomo", "flats">>)])}

LoaderConf == Conf("standard_tomo", "projection", FALSE, "none",
                   [name |-> Str("tomo")])

\* module names, split at the dots as line 351 splits them
LoaderModule == <<"httomo", "data", "hdf", "loaders">>
TomoPyModule == <<"tomopy", "prep", "normalize">>
HttomolibModule == <<"httomolib", "misc", "images">>
HttomolibgpuModule == <<"httomolibgpu", "prep", "normalize">>
UnknownModule == <<"savu", "prep", "normalize">>

\* a task of the YAML file: the module it names, what the module's method
\* carries as meta (None when it has none) and what the methods database
\* and the method say about it
Task(conf, sweep, module_name, meta) ==
    [conf |-> conf, sweep |-> sweep, module_name |-> module_name,
     meta |-> meta]

\* the saver is httomolib's, the other steps are TomoPy's
CpuModule(conf) ==
    IF conf.method_name = "save_to_images" THEN HttomolibModule
    ELSE TomoPyModule

\* the tasks of the YAML files: every kind of step with and without a
\* swept parameter, one step with two, an httomolibgpu step that runs on
\* the GPU and one that does not, a step of a library that is not known and
\* a step the methods database gives no pattern for
StepTasks ==
    {Task(conf, sweep, CpuModule(conf), None) :
        conf \in StepConfs, sweep \in {NoSweep, OneSweep}}
    \cup {Task(Conf("normalize", "projection", FALSE, "array",
                    InOut("tomo", "tomo")), TwoSweeps, TomoPyModule, None)}
    \cup {Task(Conf("normalize", "projection", FALSE, "array",
                    InOut("tomo", "tomo")), NoSweep, HttomolibgpuModule,
               Meta(cpu, gpu, <<>>)) :
            cpu \in {TRUE}, gpu \in BOOLEAN}
    \cup {Task(Conf("normalize", "projection", FALSE, "array",
                    InOut("tomo", "tomo")), NoSweep, UnknownModule, None),
          Task(Conf("normalize", "other", FALSE, "array",
                    InOut("tomo", "tomo")), NoSweep, TomoPyModule, None)}

LoaderTasks ==
    {Task(LoaderConf, sweep, LoaderModule, None) :
        sweep \in {NoSweep, OneSweep}}

\* the parameters of a task: its dataset names and its free parameters
ConfParameters(conf, sweep) ==
    [k \in DOMAIN conf.datasets \cup DOMAIN sweep |->
        IF k \in DOMAIN conf.datasets THEN conf.datasets[k] ELSE sweep[k]]

\* lines 360-367: module_to_wrapper[split_module_name[0]](...)
module_to_wrapper(task) ==
    IF task.module_name[1] = "tomopy" THEN TomoPyWrapper
    ELSE IF task.module_name[1] = "httomolib" THEN HttomolibWrapper
    ELSE HttomolibgpuWrapper(task.meta)

\* line 353: the libraries _get_method_funcs knows
KnownModules == {"tomopy", "httomolib", "httomolibgpu"}

\* line 381 reading the method's cpu flag
GpuFlagFromCpu(is_httomolibgpu, wrapper_init_module) ==
    IF ~is_httomolibgpu THEN FALSE ELSE wrapper_init_module.meta.cpu

\* line 381
GpuFlag(is_httomolibgpu, wrapper_init_module) ==
    IF ~is_httomolibgpu THEN FALSE ELSE wrapper_init_module.meta.gpu

\* lines 369 and 378: the bound method wrapper_init_module.wrapper_method
WrapperMethod(wrapper_init_module) == [self |-> wrapper_init_module]

\* _get_method_funcs for one task: lines 326-342 for the loader (i = 1),
\* lines 349-390 for a step of a known library; a step of another library
\* gets no wrapper (line 353 raises before line 360)
TaskMethodFunc(i, task) ==
    LET filled == [MethodFunc(i, "all", FALSE, i = 1) EXCEPT
                      !.method_name = task.conf.method_name,
                      !.parameters = ConfParameters(task.conf, task.sweep),
                      !.needs_stats = task.conf.needs_stats,
                      !.returns = task.conf.returns]
        is_httomolibgpu == task.module_name[1] = "httomolibgpu"
    IN IF i = 1 \/ task.module_name[1] \notin KnownModules THEN filled
       ELSE [filled EXCEPT
               !.gpu = GpuFlag(is_httomolibgpu, module_to_wrapper(task)),
               !.calc_max_slices =
                   CalcMaxSlices(is_httomolibgpu, module_to_wrapper(task)),
               !.wrapper_func = WrapperMethod(module_to_wrapper(task))]

\* the tasks as _get_method_funcs would describe them
TaskMethodFuncs(conf) == [i \in DOMAIN conf |-> TaskMethodFunc(i, conf[i])]

\* the loop of line 348 starting one task late
UnknownTasksFromThird(conf) ==
    {i \in 3..Len(conf) : conf[i].module_name[1] \notin KnownModules}

\* the steps of a library that line 353 does not know
UnknownTasks(conf) ==
    {i \in 2..Len(conf) : conf[i].module_name[1] \notin KnownModules}

\* line 83, _get_method_funcs: ValueError at the first step of an unknown
\* library, otherwise the list of the tasks' MethodFunc
GetMethodFuncs ==
    /\ pc = "get_method_funcs"
    /\ IF UnknownTasks(yaml_conf) = {}
       THEN /\ method_funcs' = TaskMethodFuncs(yaml_conf)
            /\ pc' = "assign_patterns"
       ELSE /\ pc' = "raised_unknown_module"
            /\ UNCHANGED method_funcs
    /\ UNCHANGED <<conf_vars, mpi_vars, reslice_bool_list, platform_sections,
                   chunk_vars, wrapper_vars,
                   transport_vars, run_vars>>

\* the names of the datasets a parameter value holds
NamesOf(value) == {value.val[k] : k \in DOMAIN value.val}

\* lines 292-300 scanning the input parameters only
InitialDatasetsOfInputs(funcs) ==
    [name \in UNION {UNION {NamesOf(funcs[i].parameters[k]) :
                               k \in {"data_in", "data_in_multi", "name"}
                                        \cap DOMAIN funcs[i].parameters} :
                        i \in DOMAIN funcs} |-> None]

\* _initialise_datasets_and_stats, lines 292-300: every dataset named by a
\* dataset parameter of a task is a key, with no value yet
InitialDatasets(funcs) ==
    [name \in UNION {UNION {NamesOf(funcs[i].parameters[k]) :
                               k \in DatasetParams
                                        \cap DOMAIN funcs[i].parameters} :
                        i \in DOMAIN funcs} |-> None]

\* _initialise_datasets_and_stats, lines 273-290: per task, an empty list
\* for each of its input datasets
InitialStats(funcs) ==
    [i \in DOMAIN funcs |->
        LET params == funcs[i].parameters
            dataset_param ==
                IF funcs[i].is_loader THEN "name"
                ELSE IF "data_in_multi" \in DOMAIN params
                     THEN "data_in_multi" ELSE "data_in"
        IN [name \in NamesOf(params[dataset_param]) |-> <<>>]]

ResliceDirs == {None, [path |-> "reslice_dir"]}

Init ==
    /\ pc = "get_method_funcs"
    /\ NoMpi
    /\ \E n \in 1..MaxRunMethods :
       \E loader \in LoaderTasks, tasks \in [1..n -> StepTasks] :
          yaml_conf = <<loader>> \o tasks
    /\ method_funcs = <<>>
    /\ methods_database =
           [i \in DOMAIN yaml_conf |-> yaml_conf[i].conf.db_pattern]
    /\ dict_datasets_pipeline = InitialDatasets(TaskMethodFuncs(yaml_conf))
    /\ glob_stats = InitialStats(TaskMethodFuncs(yaml_conf))
    /\ reslice_count = InitialCount
    /\ reslice_dir \in ResliceDirs
    /\ idx = 0
    /\ loader_calls = 0
    /\ wrapper_calls = <<>>
    /\ reslice_calls = <<>>
    /\ postrun_calls = <<>>
    /\ run_method_calls = <<>>
    /\ reslice_bool_list = None
    /\ platform_sections = <<>>
    /\ NoChunk
    /\ NoWrapper
    /\ gpu_enabled \in BOOLEAN
    /\ NoTransport

Next ==
    \/ GetMethodFuncs
    \/ AssignPatterns
    \/ CheckReslice
    \/ DetermineSections
    \/ CheckSweeps
    \/ RunLoader
    \/ RunMethod
    \/ Finish

Spec == Init /\ [][Next]_vars

(***************************************************************************)
(* HttomolibgpuWrapper.calc_max_slices as an operation of its own          *)
(***************************************************************************)
\* the signatures of the wrapped methods: data has no default, cutoff and
\* minus_log have one or not, remove_nans has one
Signatures ==
    {<<Param("data", FALSE, 0), Param("cutoff", c, 10),
       Param("minus_log", m, 0), Param("remove_nans", TRUE, 0)>> :
        c \in BOOLEAN, m \in BOOLEAN}

\* wrp.dict_params, the parameters the user gave: some of minus_log, which
\* the signatures have, and testarg, which they do not
UserParams ==
    UNION {[names -> {1, 2}] : names \in SUBSET {"minus_log", "testarg"}}

\* the arguments of calc_max_slices
CalcArgs ==
    [slice_dim : {0, 1}, non_slice_dims_shape : {<<100, 160>>},
     dtype : Dtypes, available_memory : AvailableMemory]

CalcMaxSlicesCall ==
    /\ pc = "calc_max_slices"
    /\ \E slices \in Caps :
          LET r == calc_max_slices(wrp, calc_args,
                       <<slices, calc_args.dtype,
                         calc_args.non_slice_dims_shape>>)
          IN /\ calc_ret' = r.ret
             /\ meta_calls' = meta_calls \o r.calls
    /\ pc' = "calc_done"
    /\ UNCHANGED <<wrp, calc_args, gpu_enabled, conf_vars, mpi_vars, plan_vars, chunk_vars,
                   run_vars, transport_vars>>

InitWrapper ==
    /\ pc = "calc_max_slices"
    /\ NoMpi
    /\ \E gpu \in BOOLEAN, sig \in Signatures, dict_params \in UserParams :
          wrp = [HttomolibgpuWrapper(Meta(TRUE, gpu, sig))
                    EXCEPT !.dict_params = dict_params]
    /\ calc_args \in CalcArgs
    /\ meta_calls = <<>>
    /\ calc_ret = None
    /\ gpu_enabled \in BOOLEAN
    /\ method_funcs = <<>>
    /\ yaml_conf = <<>>
    /\ methods_database = <<>>
    /\ reslice_bool_list = None
    /\ platform_sections = <<>>
    /\ NoChunk
    /\ NoRun
    /\ NoTransport

NextWrapper == CalcMaxSlicesCall

SpecWrapper == InitWrapper /\ [][NextWrapper]_vars

(***************************************************************************)
(* The Reslice Transport: reslice (in memory) and reslice_filebased        *)
(* (through a staging area), called at lines 528-544 of run_method on the  *)
(* shard of every worker together. An array is its shape and its elements *)
(* by index; axes are counted from 0, indices from 1.                      *)
(***************************************************************************)
Arr(shape, at) == [shape |-> shape, at |-> at]

Indices(shape) == (1..shape[1]) \X (1..shape[2]) \X (1..shape[3])

\* the part of arr with lo < index <= hi along axis
Sub(arr, axis, lo, hi) ==
    LET shape == [arr.shape EXCEPT ![axis + 1] = hi - lo]
    IN Arr(shape, [ix \in Indices(shape) |->
                      arr.at[[ix EXCEPT ![axis + 1] = @ + lo]]])

\* a followed by b along axis
Concat(a, b, axis) ==
    LET shape == [a.shape EXCEPT ![axis + 1] = @ + b.shape[axis + 1]]
    IN Arr(shape, [ix \in Indices(shape) |->
                      IF ix[axis + 1] <= a.shape[axis + 1] THEN a.at[ix]
                      ELSE b.at[[ix EXCEPT
                                   ![axis + 1] = @ - a.shape[axis + 1]]]])

\* the arrays of arrs along axis, the last one first
RECURSIVE ConcatAllReversed(_, _)
ConcatAllReversed(arrs, axis) ==
    IF Len(arrs) = 1 THEN arrs[1]
    ELSE Concat(ConcatAllReversed(Tail(arrs), axis), Head(arrs), axis)

\* the arrays of arrs one after the other along axis
RECURSIVE ConcatAll(_, _)
ConcatAll(arrs, axis) ==
    IF Len(arrs) = 1 THEN arrs[1]
    ELSE Concat(Head(arrs), ConcatAll(Tail(arrs), axis), axis)

\* where the block of worker r ends when length slices are shared out among
\* n workers in rank order, in blocks as equal as can be
SplitIndex(length, n, r) == (length * r) \div n

\* the block of worker r of arr along axis
Block(arr, axis, n, r) ==
    Sub(arr, axis, SplitIndex(arr.shape[axis + 1], n, r - 1),
                   SplitIndex(arr.shape[axis + 1], n, r))

\* in memory: every worker cuts its shard into the workers' blocks along
\* next_slice_dim and sends each worker its block; every worker puts the
\* blocks it receives one after the other along current_slice_dim
reslice(data, current_slice_dim, next_slice_dim) ==
    LET n == Len(data)
        to_scatter(r) == [q \in 1..n |-> Block(data[r], next_slice_dim, n, q)]
        received(q) == [r \in 1..n |-> to_scatter(r)[q]]
    IN [q \in 1..n |-> ConcatAll(received(q), current_slice_dim)]

\* staged: every worker writes its shard into the shared array at its place
\* along current_slice_dim; every worker then reads its block of the shared
\* array along next_slice_dim
reslice_filebased(data, current_slice_dim, next_slice_dim) ==
    LET n == Len(data)
        staged == ConcatAll(data, current_slice_dim)
    IN [q \in 1..n |-> Block(staged, next_slice_dim, n, q)]

\* lines 529-544: the strategy is chosen by reslice_info.reslice_dir
Transport(data, current_slice_dim, next_slice_dim, dir) ==
    IF dir = None THEN reslice(data, current_slice_dim, next_slice_dim)
    ELSE reslice_filebased(data, current_slice_dim, next_slice_dim)

\* the whole array, every element being its own index
WholeArray(shape) == Arr(shape, [ix \in Indices(shape) |-> ix])

\* the shapes of the arrays resliced
ArrayShapes == (1..MaxAxisLength) \X (1..MaxAxisLength) \X {1, 2}

\* the shards as loaded: the workers' blocks along axis 0
LoadedShards(shape, n) == [r \in 1..n |-> Block(WholeArray(shape), 0, n, r)]

\* the transport from axis 0 to axis 1
ResliceForward ==
    /\ pc = "reslice_0_1"
    /\ shards' = Transport(shards, 0, 1, reslice_dir)
    /\ pc' = "reslice_1_0"
    /\ UNCHANGED <<nprocs, loaded_shards, conf_vars, mpi_vars, plan_vars, chunk_vars,
                   run_vars, wrapper_vars>>

\* the transport from axis 1 back to axis 0
ResliceBack ==
    /\ pc = "reslice_1_0"
    /\ shards' = Transport(shards, 1, 0, reslice_dir)
    /\ pc' = "resliced"
    /\ UNCHANGED <<nprocs, loaded_shards, conf_vars, mpi_vars, plan_vars, chunk_vars,
                   run_vars, wrapper_vars>>

InitReslice ==
    /\ pc = "reslice_0_1"
    /\ NoMpi
    /\ nprocs \in 1..MaxWorkers
    /\ \E shape \in ArrayShapes : loaded_shards = LoadedShards(shape, nprocs)
    /\ shards = loaded_shards
    /\ reslice_dir \in ResliceDirs
    /\ method_funcs = <<>>
    /\ yaml_conf = <<>>
    /\ methods_database = <<>>
    /\ reslice_bool_list = None
    /\ platform_sections = <<>>
    /\ dict_datasets_pipeline = <<>>
    /\ glob_stats = <<>>
    /\ reslice_count = InitialCount
    /\ idx = 0
    /\ loader_calls = 0
    /\ wrapper_calls = <<>>
    /\ reslice_calls = <<>>
    /\ postrun_calls = <<>>
    /\ run_method_calls = <<>>
    /\ NoChunk
    /\ NoWrapper
    /\ gpu_enabled \in BOOLEAN

NextReslice == ResliceForward \/ ResliceBack

SpecReslice == InitReslice /\ [][NextReslice]_vars

(***************************************************************************)
(* The wrapper methods of BaseWrapper executed by the workers of one       *)
(* communicator: _execute_generic, _execute_normalize,                     *)
(* _execute_reconstruction and _execute_rotation, wrappers_class.py lines  *)
(* 13-225.  Every worker executes the same call on its own data; a worker  *)
(* is interleaved with the others at comm.bcast only, everything before    *)
(* it being local to the worker.                                           *)
(***************************************************************************)
\* the ranks of the communicator
Ranks == 0..(comm_size - 1)

\* Python's round(halves / 2) rounding a tie away from zero
RoundHalfUp(halves) == (halves + 1) \div 2

\* Python's round(halves / 2): to the nearest integer, a tie to the even one
round(halves) ==
    IF halves % 2 = 0 THEN halves \div 2
    ELSE IF (halves \div 2) % 2 = 0 THEN halves \div 2
         ELSE halves \div 2 + 1

\* line 186: mid_rank = int(round(self.comm.size / 2) + 0.1)
mid_rank(size) == round(size)

\* line 35 taking the local rank as it is
GpuIdIsLocalRank(local_rank, num_GPUs, _id) ==
    IF _id = -1 THEN local_rank ELSE _id

\* line 35: mpiutil.local_rank % self.num_GPUs if _id == -1 else _id
GpuId(local_rank, num_GPUs, _id) ==
    IF _id = -1 THEN local_rank % num_GPUs ELSE _id

\* BaseWrapper.__init__, lines 24-35, with the cupyrun the subclass sets:
\* gpu_id is set only with gpu_enabled
WrapperOfWorker(cupyrun, local_rank, num_GPUs, _id, enabled) ==
    [cupyrun |-> cupyrun,
     gpu_id |-> IF enabled THEN GpuId(local_rank, num_GPUs, _id) ELSE None]

\* something a worker does to its device or to the wrapped module
Event(ev, arg) == [ev |-> ev, arg |-> arg]

\* _gpumem_cleanup, lines 13-18
_gpumem_cleanup(enabled) ==
    IF enabled THEN <<Event("free_all_blocks", None),
                      Event("clear_plan_cache", None)>>
    ELSE <<>>

\* _transfer_data, lines 42-52: what it does before it converts the arrays
TransferEvents(self, enabled) ==
    IF ~enabled THEN <<>>
    ELSE <<Event("use_device", self.gpu_id)>> \o _gpumem_cleanup(enabled)

\* the call of the wrapped module's method on data that is where
\* _transfer_data put it
MethodEvent(self, enabled) == Event("method", _transfer_data(self, enabled))

\* what the centering method of the worker `rank` computes: the center and,
\* for find_center_360, the overlap, the side and the overlap position
method_func(rank, method_name) ==
    IF method_name = "find_center_360"
    THEN <<10 * (rank + 1) + 1, 10 * (rank + 1) + 2, 10 * (rank + 1) + 3,
           10 * (rank + 1) + 4>>
    ELSE <<10 * (rank + 1) + 1, 0, 0, 0>>

\* lines 182-185: rot_center = overlap = side = overlap_position = 0
LocalDefaults == <<0, 0, 0, 0>>

\* line 187 letting every worker compute
ComputesAlways(rank, size) == TRUE

\* line 187: if self.comm.rank == mid_rank
Computes(rank, size) == rank = mid_rank(size)

\* lines 198 and 205: what is broadcast and returned
Payload(method_name, rot) ==
    IF method_name = "find_center_360" THEN rot ELSE <<rot[1]>>

\* comm.bcast giving up the wait for the root
BcastReadyAlways(rank, size, msg) == TRUE

\* comm.bcast(..., root=mid_rank): the root sends without waiting, any
\* other worker is blocked until the root has sent
BcastReady(rank, size, msg) == rank = mid_rank(size) \/ msg # <<>>

CenteringMethods == {"find_center_vo", "find_center_360"}

\* _execute_generic (lines 84-92), _execute_normalize (lines 113-124) and
\* _execute_reconstruction (lines 148-165) on the worker `rank`
Execute(rank) ==
    /\ pc = "execute"
    /\ exec_call.wrapper_method # "_execute_rotation"
    /\ worker[rank].pc = "start"
    /\ worker' = [worker EXCEPT
          ![rank].events = @ \o TransferEvents(worker[rank].self, gpu_enabled)
                             \o <<MethodEvent(worker[rank].self, gpu_enabled)>>,
          ![rank].ret = IF exec_call.raises THEN <<>>
                        ELSE <<[result_of |-> rank]>>,
          ![rank].pc = IF exec_call.raises THEN "raised" ELSE "returned"]
    /\ UNCHANGED <<pc, conf_vars, plan_vars, chunk_vars, run_vars,
                   wrapper_vars, transport_vars, comm_size, exec_call,
                   bcast_msg>>

\* _execute_rotation, lines 179-196 and 222-225, on the worker `rank`: up
\* to the broadcast, or to the ValueError for another method name
ExecuteRotation(rank) ==
    /\ pc = "execute"
    /\ exec_call.wrapper_method = "_execute_rotation"
    /\ worker[rank].pc = "start"
    /\ LET computes == Computes(rank, comm_size)
           transferred == worker[rank].events
                             \o TransferEvents(worker[rank].self, gpu_enabled)
       IN worker' = [worker EXCEPT
             ![rank].events =
                 IF computes
                 THEN transferred
                         \o <<MethodEvent(worker[rank].self, gpu_enabled)>>
                 ELSE transferred,
             ![rank].rot =
                 IF computes /\ ~exec_call.raises
                 THEN method_func(rank, exec_call.method_name)
                 ELSE LocalDefaults,
             ![rank].bcasts =
                 IF (computes /\ exec_call.raises)
                    \/ exec_call.method_name \notin CenteringMethods
                 THEN @ ELSE @ + 1,
             ![rank].pc =
                 IF computes /\ exec_call.raises THEN "raised"
                 ELSE IF exec_call.method_name \in CenteringMethods
                      THEN "bcast" ELSE "raised"]
    /\ UNCHANGED <<pc, conf_vars, plan_vars, chunk_vars, run_vars,
                   wrapper_vars, transport_vars, comm_size, exec_call,
                   bcast_msg>>

\* _execute_rotation, lines 197-221, on the worker `rank`: comm.bcast and
\* the return of what it gave
Bcast(rank) ==
    /\ pc = "execute"
    /\ worker[rank].pc = "bcast"
    /\ BcastReady(rank, comm_size, bcast_msg)
    /\ LET msg == IF rank = mid_rank(comm_size)
                  THEN Payload(exec_call.method_name, worker[rank].rot)
                  ELSE bcast_msg
       IN /\ bcast_msg' = msg
          /\ worker' = [worker EXCEPT ![rank].ret = msg,
                                      ![rank].pc = "returned"]
    /\ UNCHANGED <<pc, conf_vars, plan_vars, chunk_vars, run_vars,
                   wrapper_vars, transport_vars, comm_size, exec_call>>

\* the numbers of devices of a node and the values of httomo.globals.gpu_id
\* (-1 when no index was given on the command line)
DeviceCounts == {1, 2}
CliGpuIds == {-1, 0, 1}

\* the calls the workers execute
ExecCalls ==
    [wrapper_method : {"_execute_generic", "_execute_normalize",
                       "_execute_reconstruction"},
     method_name : {"method"}, cupyrun : BOOLEAN, raises : BOOLEAN,
     num_GPUs : DeviceCounts, _id : CliGpuIds]
    \cup [wrapper_method : {"_execute_rotation"},
          method_name : CenteringMethods \cup {"find_center_pc"},
          cupyrun : BOOLEAN, raises : BOOLEAN,
          num_GPUs : DeviceCounts, _id : CliGpuIds]

\* a worker before the call, with the wrapper its __init__ made; its local
\* rank is its rank among the workers of its node
StartOfWorker(c, local_rank, enabled) ==
    [pc |-> "start", local_rank |-> local_rank,
     self |-> WrapperOfWorker(c.cupyrun, local_rank, c.num_GPUs, c._id,
                              enabled),
     events |-> <<>>, rot |-> LocalDefaults, ret |-> <<>>, bcasts |-> 0]

InitExecute ==
    /\ pc = "execute"
    /\ comm_size \in 1..MaxWorkers
    /\ exec_call \in ExecCalls
    /\ gpu_enabled \in BOOLEAN
    /\ \E local \in [Ranks -> 0..(MaxWorkers - 1)] :
          /\ \A r \in Ranks : local[r] <= r
          /\ worker = [r \in Ranks |->
                          StartOfWorker(exec_call, local[r], gpu_enabled)]
    /\ bcast_msg = <<>>
    /\ yaml_conf = <<>>
    /\ methods_database = <<>>
    /\ method_funcs = <<>>
    /\ reslice_bool_list = None
    /\ platform_sections = <<>>
    /\ NoChunk
    /\ NoRun
    /\ NoWrapper
    /\ NoTransport

NextExecute ==
    \/ \E rank \in Ranks : Execute(rank)
    \/ \E rank \in Ranks : ExecuteRotation(rank)
    \/ \E rank \in Ranks : Bcast(rank)

SpecExecute == InitExecute /\ [][NextExecute]_vars

(***************************************************************************)
(* run_tasks executed by the workers of one communicator.  Every worker    *)
(* reads the same YAML file, plans (lines 97-102), loads its part of the   *)
(* data and runs the method loop on its own registry.  reslice and         *)
(* reslice_filebased are collective: a worker that calls one is held at    *)
(* the call until every worker of the communicator has called it.          *)
(***************************************************************************)
\* lines 82-102 on one worker: the MethodFunc list with the patterns of the
\* methods database and the reslice_ahead flags of the planner
PlannedFuncs(conf, database) ==
    LET funcs == TaskMethodFuncs(conf)
    IN _check_if_should_reslice(
           [i \in DOMAIN funcs |->
               _assign_pattern_to_method(funcs[i], database[i])])

\* lines 131-165 on the worker `rank`: the registry after the loader, which
\* gave the worker its own part of the data, flats and darks
LoadedBy(what, rank) == Array(what, 1, <<>>, 0, [rank |-> rank])
RegistryAfterLoader(funcs, rank) ==
    DictSet(DictSet(DictSet(InitialDatasets(funcs),
                funcs[1].parameters["name"].val[1],
                Single(LoadedBy("data", rank))),
            "flats", Single(LoadedBy("flats", rank))),
        "darks", Single(LoadedBy("darks", rank)))

\* lines 202-213 on a worker w: run_method of the task w.idx on w's registry
WorkerStep(w, dir) ==
    run_method(w.idx, w.method_funcs[w.idx + 1],
               PrevFunc(w.method_funcs, w.idx), w.reslice_bool_list, dir,
               Entry(w.dict, InitialStats(w.method_funcs)[w.idx + 1],
                     <<>>, <<>>, <<>>))

\* the positions of the calls of the Reslice Transport a step makes: the
\* task and the number of the call within the step
Positions(step) ==
    [k \in DOMAIN step.reslice_calls |->
        [task_idx |-> step.reslice_calls[k].task_idx, call |-> k]]

\* the worker after its run_method call has come to its end
AfterStep(w, step) ==
    [w EXCEPT !.dict = step.dict,
              !.pending = <<>>,
              !.idx = IF step.raised # "" THEN @ ELSE @ + 1,
              !.pc = IF step.raised # "" THEN "raised" ELSE "methods"]

\* lines 76-165 on the worker `rank`
WorkerStart(rank) ==
    /\ pc = "workers"
    /\ worker[rank].pc = "start"
    /\ LET funcs == PlannedFuncs(yaml_conf, methods_database)
       IN worker' = [worker EXCEPT
             ![rank].method_funcs = funcs,
             ![rank].reslice_bool_list =
                 [i \in DOMAIN funcs |-> funcs[i].reslice_ahead],
             ![rank].dict = RegistryAfterLoader(funcs, rank),
             ![rank].idx = 1,
             ![rank].pc = "methods"]
    /\ UNCHANGED <<pc, conf_vars, plan_vars, chunk_vars, run_vars,
                   wrapper_vars, transport_vars, comm_size, exec_call,
                   bcast_msg>>

\* lines 183-213 on the worker `rank`: run_method is entered; it runs to
\* its end if it calls no reslice, and to its first reslice otherwise
WorkerRunMethod(rank) ==
    /\ pc = "workers"
    /\ worker[rank].pc = "methods"
    /\ worker[rank].idx < Len(worker[rank].method_funcs)
    /\ LET step == WorkerStep(worker[rank], reslice_dir)
       IN worker' = [worker EXCEPT ![rank] =
             IF Positions(step) = <<>> THEN AfterStep(@, step)
             ELSE [@ EXCEPT !.pending = Positions(step),
                            !.pc = "reslice"]]
    /\ UNCHANGED <<pc, conf_vars, plan_vars, chunk_vars, run_vars,
                   wrapper_vars, transport_vars, comm_size, exec_call,
                   bcast_msg>>

\* lines 528-550: every worker is at a call of the Reslice Transport, and
\* every worker gets out of it; a worker whose step has no further reslice
\* runs to the end of its run_method call
Rendezvous ==
    /\ pc = "workers"
    /\ \A rank \in Ranks : worker[rank].pc = "reslice"
    /\ worker' =
          [rank \in Ranks |->
              LET w == [worker[rank] EXCEPT
                          !.passed = Append(@, Head(worker[rank].pending)),
                          !.pending = Tail(@)]
              IN IF w.pending # <<>> THEN w
                 ELSE AfterStep(w, WorkerStep(worker[rank], reslice_dir))]
    /\ UNCHANGED <<pc, conf_vars, plan_vars, chunk_vars, run_vars,
                   wrapper_vars, transport_vars, comm_size, exec_call,
                   bcast_msg>>

\* lines 224-234 on the worker `rank`: the loop is over
WorkerFinish(rank) ==
    /\ pc = "workers"
    /\ worker[rank].pc = "methods"
    /\ worker[rank].idx = Len(worker[rank].method_funcs)
    /\ worker' = [worker EXCEPT ![rank].pc = "done"]
    /\ UNCHANGED <<pc, conf_vars, plan_vars, chunk_vars, run_vars,
                   wrapper_vars, transport_vars, comm_size, exec_call,
                   bcast_msg>>

\* the steps of the pipelines the workers run: a projection and a sinogram
\* step with and without a swept parameter, a saver that is resliced to,
\* and a step with two inputs
WorkerStepTasks ==
    {t \in StepTasks :
        /\ t.module_name[1] \in {"tomopy", "httomolib"}
        /\ t.conf.db_pattern \in {"projection", "sinogram"}
        /\ t.conf.datasets # InOut("tomo", "out")
        /\ ~t.conf.needs_stats
        /\ t.conf.returns # "tuple"
        /\ t.sweep = NoSweep
           \/ (t.sweep = OneSweep /\ t.conf.datasets = InOut("tomo", "tomo"))}

InitWorkers ==
    /\ pc = "workers"
    /\ comm_size \in 1..MaxWorkers
    /\ \E n \in 1..MaxRunMethods :
       \E tasks \in [1..n -> WorkerStepTasks] :
          yaml_conf = <<Task(LoaderConf, NoSweep, LoaderModule, None)>>
                          \o tasks
    /\ methods_database =
           [i \in DOMAIN yaml_conf |-> yaml_conf[i].conf.db_pattern]
    /\ worker = [rank \in Ranks |->
                    [pc |-> "start", method_funcs |-> <<>>,
                     reslice_bool_list |-> <<>>, dict |-> <<>>, idx |-> 0,
                     pending |-> <<>>, passed |-> <<>>]]
    /\ exec_call = None
    /\ bcast_msg = <<>>
    /\ method_funcs = <<>>
    /\ reslice_bool_list = None
    /\ platform_sections = <<>>
    /\ NoChunk
    /\ NoRun
    /\ NoWrapper
    /\ gpu_enabled = FALSE
    /\ NoTransport

NextWorkers ==
    \/ \E rank \in Ranks : WorkerStart(rank)
    \/ \E rank \in Ranks : WorkerRunMethod(rank)
    \/ Rendezvous
    \/ \E rank \in Ranks : WorkerFinish(rank)

SpecWorkers == InitWorkers /\ [][NextWorkers]_vars

(***************************************************************************)
(* Properties of the reslice planner (SpecPlan)                            *)
(***************************************************************************)
\* line 102 has run
Planned ==
    pc \notin {"assign_patterns", "raised_invalid_pattern", "check_reslice"}

PatternOf(i) == method_funcs[i].pattern

Patterns == [i \in DOMAIN method_funcs |-> PatternOf(i)]

MaxOfSet(S) == CHOOSE m \in S : \A n \in S : n <= m

\* the pattern the data is sliced in when step i is reached: that of the
\* last step marked before i, or the first step's when none is
RunningPattern(i) ==
    LET marked == {j \in 1..(i - 1) : reslice_bool_list[j]}
    IN IF marked = {} THEN PatternOf(1) ELSE PatternOf(MaxOfSet(marked))

ExamplePatterns == <<"projection", "all", "projection", "all", "sinogram">>

\* C1: step i is marked reslice_ahead exactly when its pattern is not All
\* and differs from the running current pattern (the first step's pattern,
\* replaced by a step's pattern only when that step is marked); the
\* patterns [Projection, All, Projection, All, Sinogram] give
\* [false, false, false, false, true].
C1_MarkedIffPatternChanges ==
    Planned =>
        /\ DOMAIN reslice_bool_list = DOMAIN method_funcs
        /\ \A i \in DOMAIN method_funcs :
              reslice_bool_list[i] <=>
                  (PatternOf(i) # "all" /\ PatternOf(i) # RunningPattern(i))
        /\ Patterns = ExamplePatterns =>
              reslice_bool_list = <<FALSE, FALSE, FALSE, FALSE, TRUE>>

C1_Witness ==
    /\ Planned
    /\ Patterns = ExamplePatterns
    /\ reslice_bool_list = <<FALSE, FALSE, FALSE, FALSE, TRUE>>

\* the sequence with its All entries deleted
Elided(pats) == SelectSeq(pats, LAMBDA p : p # "all")

\* the positions at which consecutive entries differ
Transitions(pats) == {i \in 1..(Len(pats) - 1) : pats[i] # pats[i + 1]}

NumberMarked == Cardinality({i \in DOMAIN reslice_bool_list :
                                reslice_bool_list[i]})

\* C2: the number of steps marked reslice_ahead equals the number of
\* positions at which consecutive patterns differ once every All entry is
\* deleted, also when the first step (the loader) has pattern All.
C2_MarkedEqualsTransitions ==
    Planned => NumberMarked = Cardinality(Transitions(Elided(Patterns)))

\* C3: a step whose pattern is All is never marked, and a run of All steps
\* between two steps of the same concrete pattern leaves the current
\* pattern alone: no step of the run and not the step after it is marked.
C3_AllIsTransparent ==
    Planned =>
        /\ \A i \in DOMAIN method_funcs :
              PatternOf(i) = "all" => ~reslice_bool_list[i]
        /\ \A i, j \in DOMAIN method_funcs :
              (/\ i + 1 < j
               /\ PatternOf(i) # "all"
               /\ PatternOf(j) = PatternOf(i)
               /\ \A k \in (i + 1)..(j - 1) : PatternOf(k) = "all")
              => \A k \in (i + 1)..j : ~reslice_bool_list[k]

\* a run of All steps between two sinogram steps, after a projection step
C3_Witness ==
    /\ Planned
    /\ Len(method_funcs) >= 4
    /\ PatternOf(1) = "projection"
    /\ PatternOf(2) = "sinogram"
    /\ PatternOf(3) = "all"
    /\ PatternOf(4) = "sinogram"
    /\ reslice_bool_list[2]
    /\ ~reslice_bool_list[3]
    /\ ~reslice_bool_list[4]

(***************************************************************************)
(* Properties of the platform sectioner (SpecPlan)                         *)
(***************************************************************************)
Sectioned == pc = "check_sweeps"

\* the steps handed to the sectioner: all but the loader
Steps == Tail(method_funcs)

RECURSIVE ConcatMethods(_)
ConcatMethods(sections) ==
    IF sections = <<>> THEN <<>>
    ELSE Head(sections).methods \o ConcatMethods(Tail(sections))

\* C4: the methods lists of the sections, concatenated in order, are the
\* input step sequence (same steps, same order, none lost or duplicated),
\* and every section has at least one method.
C4_SectionsPartitionSteps ==
    Sectioned =>
        /\ ConcatMethods(platform_sections) = Steps
        /\ \A s \in DOMAIN platform_sections :
              Len(platform_sections[s].methods) >= 1

C4_Witness ==
    /\ Sectioned
    /\ Len(platform_sections) = 3
    /\ Len(Steps) = 4
    /\ ConcatMethods(platform_sections) = Steps

\* a run of steps that may form one section: one gpu flag and at most one
\* concrete pattern
ValidRun(funcs) ==
    /\ \A i, j \in DOMAIN funcs : funcs[i].gpu = funcs[j].gpu
    /\ Cardinality({funcs[i].pattern : i \in DOMAIN funcs} \ {"all"}) <= 1

\* the least number of valid runs the first k steps can be cut into
RECURSIVE MinRuns(_, _)
MinRuns(funcs, k) ==
    IF k = 0 THEN 0
    ELSE LET starts == {j \in 1..k : ValidRun(SubSeq(funcs, j, k))}
             counts == {MinRuns(funcs, j - 1) + 1 : j \in starts}
         IN CHOOSE m \in counts : \A n \in counts : m <= n

\* C5: the sectioning is the coarsest possible: it has the least number of
\* sections among the partitions into contiguous runs of one gpu flag and
\* at most one concrete pattern, and no two adjacent sections could be
\* merged into one such run.
C5_CoarsestSectioning ==
    Sectioned =>
        /\ \A s \in DOMAIN platform_sections :
              ValidRun(platform_sections[s].methods)
        /\ Len(platform_sections) = MinRuns(Steps, Len(Steps))
        /\ \A s \in 1..(Len(platform_sections) - 1) :
              ~ValidRun(platform_sections[s].methods
                            \o platform_sections[s + 1].methods)

\* a section of four steps with All on both sides of its concrete pattern
C5_Witness ==
    /\ Sectioned
    /\ Len(Steps) = 4
    /\ Len(platform_sections) = 1
    /\ Steps[1].pattern = "all"
    /\ Steps[2].pattern = "sinogram"
    /\ Steps[3].pattern = "all"
    /\ Steps[4].pattern = "sinogram"

(***************************************************************************)
(* Properties of the chunk sizer (SpecChunk)                               *)
(***************************************************************************)
Updated == pc = "updated"

Known == process_data_shape # None /\ input_data_type # None

\* the length of the input along the section's slicing axis
AxisLength ==
    IF section.pattern = "sinogram" THEN process_data_shape[2]
    ELSE process_data_shape[1]

\* the steps of the section that carry an estimator, in order
WithEstimator ==
    SelectSeq(section.methods, LAMBDA m : m.calc_max_slices # None)

MinOfSet(S) == CHOOSE m \in S : \A n \in S : m <= n

\* the caps the estimators of the section's steps returned
ReturnedCaps ==
    {estimator_calls[k].result.slices_estimated : k \in DOMAIN estimator_calls}

\* C6: for a GPU section with known shape and dtype, max_slices is the
\* minimum of the input length along the slicing axis and the caps returned
\* by the estimators of all the section's steps; caps 120 and 45 with an
\* axis of at least 120 give 45.
C6_GpuMaxSlicesIsMinimum ==
    (Updated /\ Known /\ section.gpu) =>
        /\ [k \in DOMAIN estimator_calls |-> estimator_calls[k].method]
               = [k \in DOMAIN WithEstimator |-> WithEstimator[k].name]
        /\ section.max_slices = MinOfSet({AxisLength} \cup ReturnedCaps)
        /\ (ReturnedCaps = {120, 45} /\ AxisLength >= 120)
               => section.max_slices = 45

C6_Witness ==
    /\ Updated /\ Known /\ section.gpu
    /\ Len(estimator_calls) = 2
    /\ estimator_calls[1].result.slices_estimated = 120
    /\ estimator_calls[2].result.slices_estimated = 45
    /\ AxisLength >= 120
    /\ section.max_slices = 45

\* C7: for a CPU section with known shape and dtype, max_slices is the
\* input length along the slicing axis whatever estimators the steps carry,
\* and no estimator and no device-memory query is invoked.
C7_CpuMaxSlicesIsAxisLength ==
    (Updated /\ Known /\ ~section.gpu) =>
        /\ section.max_slices = AxisLength
        /\ estimator_calls = <<>>
        /\ memory_queries = 0

\* a CPU section whose steps carry estimators with caps below the axis
C7_Witness ==
    /\ Updated /\ Known /\ ~section.gpu
    /\ Len(WithEstimator) = 2
    /\ \A k \in 1..2 :
          /\ WithEstimator[k].calc_max_slices \in Estimators
          /\ WithEstimator[k].calc_max_slices.slices < AxisLength
    /\ section.max_slices = AxisLength

\* C8: for a GPU section, _update_max_slices never leaves a max_slices
\* below 1: a cap below 1 makes it fail and not return with that value set.
C8_GpuMaxSlicesAtLeastOne ==
    (Updated /\ Known /\ section.gpu) => section.max_slices >= 1

\* the two dimensions of the input that the section does not slice
InputNonSliceShape ==
    IF section.pattern = "sinogram"
    THEN <<process_data_shape[1], process_data_shape[3]>>
    ELSE <<process_data_shape[2], process_data_shape[3]>>

\* the dtype and the non-slice shape in force before the k-th estimator
\* call: the section's input for the first call, what the call before it
\* returned for the others
ThreadedInto(k) ==
    IF k = 1 THEN <<input_data_type, InputNonSliceShape>>
    ELSE <<estimator_calls[k - 1].result.data_type,
           estimator_calls[k - 1].result.output_dims>>

\* C25: in a GPU section each estimator is called with the dtype and the
\* non-slice shape returned by the nearest estimator before it in the
\* section (the section's input for the first), all estimators get the one
\* available-memory value queried once for the section, and
\* _update_max_slices returns the dtype and shape of the last estimator
\* (the inputs when no step has an estimator).
C25_EstimatesAreThreaded ==
    (Updated /\ Known /\ section.gpu) =>
        /\ Len(estimator_calls) = Len(WithEstimator)
        /\ \A k \in DOMAIN estimator_calls :
              /\ estimator_calls[k].method = WithEstimator[k].name
              /\ <<estimator_calls[k].dtype,
                   estimator_calls[k].non_slice_dims_shape>> = ThreadedInto(k)
              /\ estimator_calls[k].available_memory =
                     estimator_calls[1].available_memory
        /\ memory_queries = 1
        /\ chunk_ret = ThreadedInto(Len(estimator_calls) + 1)

\* two estimators on uint16 data: the first casts to float32 and crops, the
\* second is asked about the cropped float32 data and crops again, and the
\* call returns what the second gave
C25_Witness ==
    /\ Updated /\ Known /\ section.gpu
    /\ input_data_type = Uint16
    /\ Len(estimator_calls) = 2
    /\ estimator_calls[1].dtype = Uint16
    /\ estimator_calls[1].result.data_type = Float32
    /\ estimator_calls[1].result.output_dims # InputNonSliceShape
    /\ estimator_calls[2].dtype = Float32
    /\ estimator_calls[2].non_slice_dims_shape =
           estimator_calls[1].result.output_dims
    /\ estimator_calls[2].result.output_dims #
           estimator_calls[1].result.output_dims
    /\ chunk_ret = <<Float32, estimator_calls[2].result.output_dims>>

\* the k-th estimator call was answered by the wrapper of a method that
\* does not run on the GPU
Unconstrained(k) == WithEstimator[k].calc_max_slices = HostEstimator

\* the caps returned by the other estimators
ConstrainingCaps ==
    {estimator_calls[k].result.slices_estimated :
        k \in {j \in DOMAIN estimator_calls : ~Unconstrained(j)}}

\* C26: a step without estimator, or an httomolibgpu step whose method
\* does not support the GPU (its estimator returns 1000000000 and the dtype
\* and shape it was given), never lowers the section's max_slices below
\* what the other steps and the axis length give, and leaves the dtype and
\* the non-slice shape threaded to the later steps as they were.
C26_UnconstrainedStepsAreNeutral ==
    (Updated /\ Known /\ section.gpu) =>
        /\ Len(estimator_calls) = Len(WithEstimator)
        /\ section.max_slices = MinOfSet({AxisLength} \cup ConstrainingCaps)
        /\ \A k \in DOMAIN estimator_calls :
              Unconstrained(k) =>
                 /\ estimator_calls[k].result.slices_estimated = 1000000000
                 /\ ThreadedInto(k + 1) =
                        <<estimator_calls[k].dtype,
                          estimator_calls[k].non_slice_dims_shape>>
        /\ \A k \in DOMAIN estimator_calls :
              <<estimator_calls[k].dtype,
                estimator_calls[k].non_slice_dims_shape>> = ThreadedInto(k)
        /\ chunk_ret = ThreadedInto(Len(estimator_calls) + 1)

\* a section of a step that caps at 45, casts and crops, followed by a step
\* whose method does not run on the GPU: the second is asked about the
\* first's output, the cap stays 45 and the first's output is returned
C26_Witness ==
    /\ Updated /\ Known /\ section.gpu
    /\ Len(estimator_calls) = 2
    /\ ~Unconstrained(1)
    /\ Unconstrained(2)
    /\ estimator_calls[1].result.slices_estimated = 45
    /\ estimator_calls[1].result.data_type # input_data_type
    /\ estimator_calls[1].result.output_dims # InputNonSliceShape
    /\ estimator_calls[2].result.slices_estimated = 1000000000
    /\ section.max_slices = 45
    /\ chunk_ret = <<estimator_calls[1].result.data_type,
                     estimator_calls[1].result.output_dims>>

\* C27: _update_max_slices slices along axis 1 with non-slice shape
\* (shape[0], shape[2]) when the section's pattern is Sinogram, and along
\* axis 0 with non-slice shape (shape[1], shape[2]) when it is Projection
\* or All; the starting candidate slice count is the length of the input
\* along that axis.
C27_SlicingAxisFollowsPattern ==
    (Updated /\ Known) =>
        /\ \A k \in DOMAIN estimator_calls :
              estimator_calls[k].slice_dim =
                  IF section.pattern = "sinogram" THEN 1 ELSE 0
        /\ estimator_calls # <<>> =>
              estimator_calls[1].non_slice_dims_shape = InputNonSliceShape
        /\ section.max_slices <= AxisLength
        /\ estimator_calls = <<>> =>
              /\ section.max_slices = AxisLength
              /\ chunk_ret = <<input_data_type, InputNonSliceShape>>

\* a GPU sinogram section on data of shape (130, 100, 160): its estimator
\* is asked about axis 1 and shape (130, 160), and its answer of 120 slices
\* is cut to the 100 of the axis
C27_Witness ==
    /\ Updated /\ Known /\ section.gpu
    /\ section.pattern = "sinogram"
    /\ process_data_shape = <<130, 100, 160>>
    /\ Len(estimator_calls) = 1
    /\ estimator_calls[1].slice_dim = 1
    /\ estimator_calls[1].non_slice_dims_shape = <<130, 160>>
    /\ estimator_calls[1].result.slices_estimated = 120
    /\ section.max_slices = 100

\* C28: when the input shape or the input dtype is unknown (None),
\* _update_max_slices leaves the section as it is (max_slices keeps the
\* value it had, 0 if never computed), asks for no device memory and calls
\* no estimator.
C28_UnknownInputLeavesSection ==
    [][(pc = "update_max_slices" /\ ~Known) =>
          /\ section' = section
          /\ memory_queries' = 0
          /\ estimator_calls' = <<>>]_vars

\* a call without dtype on a GPU section with an estimator whose max_slices
\* an earlier call had set to 7
C28_Witness ==
    /\ Updated
    /\ process_data_shape # None
    /\ input_data_type = None
    /\ section.gpu
    /\ WithEstimator # <<>>
    /\ section.max_slices = 7
    /\ estimator_calls = <<>>
    /\ memory_queries = 0

(***************************************************************************)
(* Properties of the parameter sweep (Spec)                                *)
(***************************************************************************)
\* the tuple-valued parameters of a step
SweptParams(func) ==
    {k \in DOMAIN func.parameters : func.parameters[k].kind = "tuple"}

\* the names a step reads and writes, one pair per input dataset
InputNames(func) ==
    IF "data_in_multi" \in DOMAIN func.parameters
    THEN func.parameters["data_in_multi"].val
    ELSE func.parameters["data_in"].val

OutputNames(func) ==
    IF "data_out_multi" \in DOMAIN func.parameters
    THEN func.parameters["data_out_multi"].val
    ELSE func.parameters["data_out"].val

\* this step of run_tasks is a whole run_method call of the task idx that
\* returned normally
MethodRan == pc = "methods" /\ pc' = "methods" /\ idx' = idx + 1

\* the calls this step made to the wrapper
NewWrapperCalls ==
    SubSeq(wrapper_calls', Len(wrapper_calls) + 1, Len(wrapper_calls'))

\* C9: a step that declares a sweep over a tuple of n values is invoked
\* exactly n times on the same input array (n times for each of its input
\* datasets), once per value in tuple order, and afterwards its output
\* dataset entry is the n-element list whose k-th element is the result for
\* the k-th value.
C9_SweepRunsOncePerValue ==
    [][(MethodRan /\ SweptParams(method_funcs[idx + 1]) # {}) =>
        LET func == method_funcs[idx + 1]
            vals == func.parameters[CHOOSE k \in SweptParams(func) : TRUE].val
            n == Len(vals)
            ins == InputNames(func)
            outs == OutputNames(func)
            calls == NewWrapperCalls
        IN /\ Len(calls) = n * Len(ins)
           /\ \A j \in DOMAIN ins :
                 LET before == dict_datasets_pipeline[ins[j]].v
                     input == IF reslice_bool_list[idx + 1]
                              THEN Array("reslice", idx, <<>>, 0, before)
                              ELSE before
                 IN /\ \A k \in 1..n :
                          /\ calls[(j - 1) * n + k].task_idx = idx
                          /\ calls[(j - 1) * n + k].sweep = <<vals[k]>>
                          /\ calls[(j - 1) * n + k].data = input
                    /\ dict_datasets_pipeline'[outs[j]] =
                           Swept([k \in 1..n |->
                                     Array("run", idx, <<vals[k]>>, 0, input)])
    ]_vars

\* a step swept over (30, 10, 20) has just run on the loaded data and left
\* a list of three results under a dataset other than its input
C9_Witness ==
    /\ pc = "methods"
    /\ idx = 2
    /\ SweptParams(method_funcs[2]) # {}
    /\ Len(wrapper_calls) = 3
    /\ dict_datasets_pipeline["tomo"] = Single(Loaded("data"))
    /\ dict_datasets_pipeline["out"] =
           Swept(<<Array("run", 1, <<30>>, 0, Loaded("data")),
                   Array("run", 1, <<10>>, 0, Loaded("data")),
                   Array("run", 1, <<20>>, 0, Loaded("data"))>>)

\* the number of tuple-valued parameters the steps declare together
TotalSwept ==
    SumSeq([i \in DOMAIN method_funcs |->
               Cardinality(SweptParams(method_funcs[i]))])

\* run_tasks is past the check of lines 106-118
PastSweepCheck ==
    pc \notin {"get_method_funcs", "raised_unknown_module",
               "assign_patterns", "raised_invalid_pattern", "check_reslice",
               "sections", "raised_index_error", "check_sweeps"}

\* C10: with more than one tuple-valued parameter in the pipeline (in
\* different steps or in one) run_tasks raises before the loader is called
\* and before any step runs; with none or one the check raises nothing.
C10_SecondSweepRejected ==
    /\ (PastSweepCheck /\ TotalSwept > 1) =>
           /\ pc = "raised_too_many_sweeps"
           /\ loader_calls = 0
           /\ wrapper_calls = <<>>
    /\ (PastSweepCheck /\ TotalSwept <= 1) => pc # "raised_too_many_sweeps"

\* two steps with one swept parameter each: the run has stopped at the check
C10_Witness ==
    /\ pc = "raised_too_many_sweeps"
    /\ Len(method_funcs) = 3
    /\ Cardinality(SweptParams(method_funcs[1])) = 0
    /\ Cardinality(SweptParams(method_funcs[2])) = 1
    /\ Cardinality(SweptParams(method_funcs[3])) = 1
    /\ loader_calls = 0

(***************************************************************************)
(* Properties of run_method on swept data (Spec)                           *)
(***************************************************************************)
\* run_tasks has stopped on a sweep declared on the saver or on a step with
\* several named outputs
SweepRejected ==
    pc \in {"raised_ValueError_sweep_on_saver",
            "raised_ValueError_sweep_on_multiple_outputs"}

\* C11: a sweep declared on a step with several named outputs, or on
\* save_to_images, is rejected before the loader has loaded data and before
\* any earlier step has been executed.
C11_SweepRejectedBeforeData ==
    SweepRejected => (loader_calls = 0 /\ wrapper_calls = <<>>)

\* the step that has just run neither sweeps nor saves and gives back one
\* array
PlainStep(func) ==
    /\ SweptParams(func) = {}
    /\ func.method_name # "save_to_images"
    /\ func.returns = "array"

\* C12: when the input dataset entry of a non-sweep, non-saver step is a
\* list of n arrays, the step is invoked once per element in list order and
\* afterwards its output dataset entry, under the input's name or another,
\* is the n-element list whose i-th element is the result for the i-th
\* input element.
C12_ListInListOut ==
    [][(MethodRan /\ PlainStep(method_funcs[idx + 1])) =>
        LET func == method_funcs[idx + 1]
            ins == InputNames(func)
            outs == OutputNames(func)
            calls == NewWrapperCalls
        IN \A j \in DOMAIN ins :
              (Len(ins) = 1 /\ IsList(dict_datasets_pipeline[ins[j]])) =>
                 LET before == dict_datasets_pipeline[ins[j]].v
                     n == Len(before)
                     input == [i \in 1..n |->
                                  IF reslice_bool_list[idx + 1]
                                  THEN Array("reslice", idx, <<>>, 0, before[i])
                                  ELSE before[i]]
                 IN /\ Len(calls) = n
                    /\ \A i \in 1..n : calls[i].data = input[i]
                    /\ IsList(dict_datasets_pipeline'[outs[j]])
                    /\ dict_datasets_pipeline'[outs[j]].v =
                           [i \in 1..n |->
                               Array("run", idx, <<>>, 0, input[i])]
    ]_vars

(***************************************************************************)
(* Properties of the loop of run_tasks (Spec)                              *)
(***************************************************************************)
\* the calls of run_method so far are for the steps in pipeline order, each
\* with the step before it and the step after it, after the loader has run
CalledInOrder ==
    /\ (run_method_calls # <<>>) => loader_calls = 1
    /\ (pc = "methods") => Len(run_method_calls) = idx - 1
    /\ (pc = "done") => Len(run_method_calls) = Len(method_funcs) - 1
    /\ \A k \in DOMAIN run_method_calls :
          /\ run_method_calls[k].task_idx = k
          /\ run_method_calls[k].current_func = method_funcs[k + 1]
          /\ run_method_calls[k].prev_func = method_funcs[k]
          /\ (k + 1 = Len(method_funcs)) =>
                 run_method_calls[k].next_func = None
          /\ (k + 1 < Len(method_funcs)) =>
                 run_method_calls[k].next_func = method_funcs[k + 2]

\* every input dataset of the step about to run holds one array
SingleInputs(func) ==
    \A j \in DOMAIN InputNames(func) :
       /\ dict_datasets_pipeline[InputNames(func)[j]] # None
       /\ ~IsList(dict_datasets_pipeline[InputNames(func)[j]])

CallsAfterReslice ==
    {k \in DOMAIN wrapper_calls :
        reslice_bool_list[wrapper_calls[k].task_idx + 1]}

\* C14: when a step is to be resliced, each of its input arrays is passed
\* through reslice before the step is invoked, the resliced array replaces
\* the registry entry under the input dataset name (positionally when the
\* entry is a list) before the invocation, and the step is invoked on the
\* resliced array, never on the array before the reslice.
C14_ReslicedBeforeInvoked ==
    \A k \in CallsAfterReslice :
       LET call == wrapper_calls[k]
           entry == call.registry[call.in_dataset]
       IN /\ call.data.op = "reslice"
          /\ call.data.task = call.task_idx
          /\ \E r \in DOMAIN reslice_calls :
                /\ reslice_calls[r].task_idx = call.task_idx
                /\ reslice_calls[r].data = call.data.of
          /\ \A r \in DOMAIN reslice_calls :
                (reslice_calls[r].task_idx = call.task_idx) =>
                    reslice_calls[r].data # call.data
          /\ IF IsList(entry) THEN entry.v[call.i + 1] = call.data
             ELSE entry.v = call.data

\* a sinogram step after a swept projection step has been invoked on the
\* third array of the sweep, resliced
C14_Witness ==
    \E k \in CallsAfterReslice :
       /\ wrapper_calls[k].i = 2
       /\ IsList(wrapper_calls[k].registry["tomo"])
       /\ wrapper_calls[k].data.op = "reslice"
       /\ wrapper_calls[k].data.of.op = "run"

\* the steps for which a reslice was performed
StepsResliced == {reslice_calls[r].task_idx : r \in DOMAIN reslice_calls}

\* before the first step runs the count is 0; after each step's run_method
\* has returned it is the number of steps resliced so far
CountIsStepsResliced ==
    /\ (run_method_calls = <<>>) => reslice_count = 0
    /\ (pc \in {"methods", "done"}) =>
           reslice_count = Cardinality(StepsResliced)

\* C15: the Reslice State's count is 0 before the first step runs and,
\* after each step's run_method returns, equals the number of steps executed
\* so far for which a reslice was performed; it never decreases, so the
\* total reported at the end of the run is the number of reslices performed.
C15_CountIsStepsResliced ==
    /\ []CountIsStepsResliced
    /\ [][reslice_count' >= reslice_count]_vars

\* a run has ended with one step resliced, on each of the three arrays of
\* a sweep
C15_Witness ==
    /\ pc = "done"
    /\ reslice_count = 1
    /\ Len(reslice_calls) = 3

(***************************************************************************)
(* The frame of _check_if_should_reslice (SpecPlan)                        *)
(***************************************************************************)
\* two step records agree in every field but reslice_ahead
SameButResliceAhead(a, b) ==
    [a EXCEPT !.reslice_ahead = FALSE] = [b EXCEPT !.reslice_ahead = FALSE]

HasUnknownModule ==
    \E i \in 2..Len(yaml_conf) :
       yaml_conf[i].module_name[1] \notin {"tomopy", "httomolib",
                                           "httomolibgpu"}

\* the methods database gives a task a token that names no pattern
HasUnknownPattern ==
    \E i \in DOMAIN methods_database :
       methods_database[i] \notin {"projection", "sinogram", "all"}

\* C17: an unknown owning library, or an unrecognized pattern token, makes
\* run_tasks raise before the loader is invoked and before any step
\* executes, leaving the dataset registry with no loaded or produced data.
C17_ConfigurationErrorsBeforeData ==
    /\ HasUnknownModule =>
           pc \in {"get_method_funcs", "raised_unknown_module"}
    /\ (HasUnknownPattern /\ ~HasUnknownModule) =>
           pc \in {"get_method_funcs", "assign_patterns",
                   "raised_invalid_pattern"}
    /\ (pc \in {"raised_unknown_module", "raised_invalid_pattern"}) =>
           /\ HasUnknownModule \/ HasUnknownPattern
           /\ loader_calls = 0
           /\ wrapper_calls = <<>>
           /\ run_method_calls = <<>>
           /\ \A name \in DOMAIN dict_datasets_pipeline :
                 dict_datasets_pipeline[name] = None

\* run_tasks has stopped on the second step's library, after a first step
\* of a known one
C17_Witness ==
    /\ pc = "raised_unknown_module"
    /\ Len(yaml_conf) = 3
    /\ yaml_conf[2].module_name[1] = "tomopy"
    /\ yaml_conf[3].module_name[1] = "savu"
    /\ dict_datasets_pipeline["tomo"] = None

(***************************************************************************)
(* Properties of HttomolibgpuWrapper.calc_max_slices (SpecWrapper)         *)
(***************************************************************************)
\* the parameters of the wrapper's method that have a default
WithDefault ==
    {i \in DOMAIN wrp.meta.signature : wrp.meta.signature[i].has_default}

\* C18: calc_max_slices on a GPU-capable method calls the method's
\* estimator with the four positional inputs unchanged and keyword
\* arguments equal to the signature's defaults overridden by the wrapper's
\* user parameters: a name in both gets the user's value, every default not
\* overridden is passed, and user parameters the signature lacks are passed.
C18_KwargsAreDefaultsThenUser ==
    (pc = "calc_done" /\ wrp.cupyrun) =>
        /\ Len(meta_calls) = 1
        /\ meta_calls[1].args =
               <<calc_args.slice_dim, calc_args.non_slice_dims_shape,
                 calc_args.dtype, calc_args.available_memory>>
        /\ DOMAIN meta_calls[1].kwargs =
               {wrp.meta.signature[i].name : i \in WithDefault}
                   \cup DOMAIN wrp.dict_params
        /\ \A name \in DOMAIN wrp.dict_params :
              meta_calls[1].kwargs[name] = wrp.dict_params[name]
        /\ \A i \in WithDefault :
              (wrp.meta.signature[i].name \notin DOMAIN wrp.dict_params) =>
                  meta_calls[1].kwargs[wrp.meta.signature[i].name] =
                      wrp.meta.signature[i].default

\* as in test_httomolibgpu_wrapper_max_slices_passes_kwargs: the user gives
\* minus_log, which has a default, and testarg, which the signature lacks;
\* cutoff and remove_nans keep their defaults
C18_Witness ==
    /\ pc = "calc_done"
    /\ wrp.cupyrun
    /\ DOMAIN wrp.dict_params = {"minus_log", "testarg"}
    /\ Len(meta_calls) = 1
    /\ DOMAIN meta_calls[1].kwargs =
           {"cutoff", "minus_log", "remove_nans", "testarg"}
    /\ meta_calls[1].kwargs["minus_log"] = 1
    /\ meta_calls[1].kwargs["cutoff"] = 10

(***************************************************************************)
(* Properties of the steps' device flags (Spec)                            *)
(***************************************************************************)
\* the steps of the pipeline once _get_method_funcs has returned them
NonLoaderSteps == 2..Len(method_funcs)

\* the library a step's module belongs to
Library(i) == yaml_conf[i].module_name[1]

\* the step's gpu flag is its wrapper's cupyrun; a TomoPy or httomolib step
\* has both false and no estimator; an httomolibgpu step has its meta's gpu
FlagsAgree(i) ==
    LET m == method_funcs[i]
        wrapper == m.wrapper_func.self
    IN /\ m.gpu = wrapper.cupyrun
       /\ Library(i) \in {"tomopy", "httomolib"} =>
             /\ ~m.gpu
             /\ ~wrapper.cupyrun
             /\ m.calc_max_slices = None
       /\ Library(i) = "httomolibgpu" =>
             /\ m.gpu = yaml_conf[i].meta.gpu
             /\ m.calc_max_slices # None

\* every step of a section has a wrapper whose cupyrun is the section's gpu
SectionsAgree ==
    \A s \in DOMAIN platform_sections :
       \A k \in DOMAIN platform_sections[s].methods :
          platform_sections[s].gpu =
              platform_sections[s].methods[k].wrapper_func.self.cupyrun

\* the flags of the steps and their sections agree with their wrappers
C19_FlagsAgree ==
    /\ \A i \in NonLoaderSteps : FlagsAgree(i)
    /\ SectionsAgree

\* the wrapper of the step of call k put the data on the device
OnDevice(k) == wrapper_calls[k].data_on = "device"

\* the method of the step of call k is an httomolibgpu method whose meta
\* declares GPU support
DeclaresGpu(k) ==
    /\ Library(wrapper_calls[k].task_idx + 1) = "httomolibgpu"
    /\ yaml_conf[wrapper_calls[k].task_idx + 1].meta.gpu

C20_RoundTripGivesBackShards ==
    pc = "resliced" =>
        /\ Len(shards) = nprocs
        /\ \A r \in 1..nprocs :
              /\ shards[r].shape = loaded_shards[r].shape
              /\ shards[r].at = loaded_shards[r].at

\* a round trip over three workers of an array that the way there has
\* really redistributed: the shards in between were not the loaded ones
C20_Witness ==
    /\ pc = "resliced"
    /\ nprocs = 3
    /\ \A r \in 1..nprocs : loaded_shards[r].shape = <<1, 3, 2>>
    /\ Transport(loaded_shards, 0, 1, reslice_dir)[1].shape = <<3, 1, 2>>
    /\ Transport(loaded_shards, 0, 1, reslice_dir)[1].at[<<3, 1, 2>>] =
           <<3, 1, 2>>
    /\ shards = loaded_shards

(***************************************************************************)
(* Properties of the plan: the reslices and the sections (SpecPlan)        *)
(***************************************************************************)
\* the steps of section s after its first
LaterSteps(s) == 2..Len(platform_sections[s].methods)

\* C21: in the plan built by run_tasks every non-loader step marked
\* reslice_ahead is the first step of its platform section, so that no
\* reslice is planned in the middle of a section.
C21_ResliceOnlyAtSectionStart ==
    Sectioned =>
        \A s \in DOMAIN platform_sections :
           \A k \in LaterSteps(s) :
              ~platform_sections[s].methods[k].reslice_ahead

\* C22: when a section other than the first begins with a step whose gpu
\* flag is that of the preceding section (the break is one of pattern), the
\* reslice planner has marked that step reslice_ahead.
C22_PatternBreakIsResliced ==
    Sectioned =>
        \A s \in DOMAIN platform_sections :
           (s > 1 /\ platform_sections[s].methods[1].gpu =
                         platform_sections[s - 1].gpu)
           => platform_sections[s].methods[1].reslice_ahead

\* a projection section followed by a sinogram section on the same device,
\* the second one beginning with a marked step
C22_Witness ==
    /\ Sectioned
    /\ Len(platform_sections) >= 2
    /\ platform_sections[1].pattern = "projection"
    /\ platform_sections[2].pattern = "sinogram"
    /\ platform_sections[2].gpu = platform_sections[1].gpu
    /\ Len(platform_sections[1].methods) >= 2
    /\ platform_sections[2].methods[1].reslice_ahead

\* C23: every step of a section returned by _determine_platform_sections
\* has the section's gpu flag.
C23_SectionStepsShareGpu ==
    Sectioned =>
        \A s \in DOMAIN platform_sections :
           \A k \in DOMAIN platform_sections[s].methods :
              platform_sections[s].methods[k].gpu = platform_sections[s].gpu

\* a GPU section of two steps between two CPU sections
C23_Witness ==
    /\ Sectioned
    /\ Len(platform_sections) = 3
    /\ ~platform_sections[1].gpu
    /\ platform_sections[2].gpu
    /\ Len(platform_sections[2].methods) = 2
    /\ platform_sections[2].methods[2].gpu
    /\ ~platform_sections[3].gpu

\* the patterns of the steps of section s that are not All
ConcretePatterns(s) ==
    {platform_sections[s].methods[k].pattern :
        k \in DOMAIN platform_sections[s].methods} \ {"all"}

\* C24: a section's pattern is the one concrete pattern its steps that are
\* not All share, and is All only when all its steps are All; no section
\* holds two steps of different concrete patterns.
C24_SectionPatternIsConcrete ==
    Sectioned =>
        \A s \in DOMAIN platform_sections :
           /\ Cardinality(ConcretePatterns(s)) <= 1
           /\ ConcretePatterns(s) = {} <=> platform_sections[s].pattern = "all"
           /\ ConcretePatterns(s) # {} =>
                 ConcretePatterns(s) = {platform_sections[s].pattern}

\* a section that begins with All steps and takes the pattern of its third
\* step, followed by a section of All steps alone on the other device
C24_Witness ==
    /\ Sectioned
    /\ Len(platform_sections) = 2
    /\ Len(platform_sections[1].methods) = 3
    /\ platform_sections[1].methods[1].pattern = "all"
    /\ platform_sections[1].methods[2].pattern = "all"
    /\ platform_sections[1].methods[3].pattern = "sinogram"
    /\ platform_sections[1].pattern = "sinogram"
    /\ platform_sections[2].pattern = "all"

(***************************************************************************)
(* Properties of the store of a step's results (Spec)                      *)
(***************************************************************************)
\* the Run-Method Context of the step run_tasks is about to run
StepInfo ==
    prerun_method(idx, method_funcs[idx + 1], PrevFunc(method_funcs, idx),
                  reslice_bool_list)

\* the names declared by the j-th entry of the step's output list
OutNames(j) ==
    {StepInfo.data_out[j].val[k] : k \in DOMAIN StepInfo.data_out[j].val}

\* the array the step is run on for its j-th input dataset, the entry being
\* one array
InputArray(j) ==
    LET arr == dict_datasets_pipeline[StepInfo.data_in[j]].v
    IN IF StepInfo.should_reslice THEN Resliced(StepInfo, arr) ELSE arr

\* the registry entry holds res: as its value, or as one of its items when
\* it is a list
Holds(entry, res) ==
    IF IsList(entry) THEN \E i \in DOMAIN entry.v : entry.v[i] = res
    ELSE entry # None /\ entry.v = res

\* a step that is not a saver and has no swept parameter runs to its end,
\* on inputs that are single arrays
StoresResults ==
    /\ pc = "methods"
    /\ idx < Len(method_funcs)
    /\ pc' = "methods"
    /\ method_funcs[idx + 1].method_name # "save_to_images"
    /\ StepInfo.param_sweep_name = ""
    /\ \A j \in DOMAIN StepInfo.data_in :
          ~IsList(dict_datasets_pipeline[StepInfo.data_in[j]])

\* what the wrapper gives back for the j-th input dataset
ResultFor(j) == func_wrapper(method_funcs[idx + 1], idx, <<>>, InputArray(j))

\* the j-th entry of the output list holds what the j-th input gave: the
\* k-th value of a tuple under the k-th name, an array under the one name
StoredAt(j) ==
    IF method_funcs[idx + 1].returns = "tuple"
    THEN \A k \in DOMAIN StepInfo.data_out[j].val :
            dict_datasets_pipeline'[StepInfo.data_out[j].val[k]] =
                Single(ResultFor(j)[k])
    ELSE Holds(dict_datasets_pipeline'[StepInfo.data_out[j].val[1]],
               ResultFor(j))

\* a registry entry that the step does not declare as an output is as it
\* was, or is an input that has been resliced
NotAnOutputKept(name) ==
    /\ name \in DOMAIN dict_datasets_pipeline
    /\ \/ dict_datasets_pipeline'[name] = dict_datasets_pipeline[name]
       \/ /\ StepInfo.should_reslice
          /\ \E j \in DOMAIN StepInfo.data_in :
                /\ name = StepInfo.data_in[j]
                /\ dict_datasets_pipeline'[name] = Single(InputArray(j))

\* C29: for a step with several inputs the results of the j-th input
\* dataset are written only to the j-th entry of the step's output list;
\* when that entry is a list of names and the step returns a tuple, the
\* k-th value is written to the k-th name; the store creates or changes no
\* registry entry but the declared ones.
C29_ResultsGoToDeclaredOutputs ==
    [][StoresResults =>
          /\ \A j \in DOMAIN StepInfo.data_in : StoredAt(j)
          /\ \A name \in DOMAIN dict_datasets_pipeline' :
                (\A j \in DOMAIN StepInfo.data_out : name \notin OutNames(j))
                    => NotAnOutputKept(name)]_vars

\* a run in which a step with the inputs tomo and flats has stored what
\* each gave under its own name, and a step returning a tuple has resliced
\* tomo and stored its two values under cor and overlap
C29_Witness ==
    /\ pc = "done"
    /\ Len(method_funcs) = 3
    /\ "data_in_multi" \in DOMAIN method_funcs[2].parameters
    /\ method_funcs[3].returns = "tuple"
    /\ dict_datasets_pipeline["flats"] =
           Single(Array("run", 1, <<>>, 0, Loaded("flats")))
    /\ dict_datasets_pipeline["tomo"].v.op = "reslice"
    /\ dict_datasets_pipeline["tomo"].v.of =
           Array("run", 1, <<>>, 0, Loaded("data"))
    /\ dict_datasets_pipeline["cor"].v.part = 1
    /\ dict_datasets_pipeline["overlap"].v.part = 2


(***************************************************************************)
(* Properties of the dataset registry and the statistics (Spec)            *)
(***************************************************************************)
\* the dataset names the YAML file gives the i-th task, in any of its
\* dataset parameters
ReferencedNames(i) ==
    UNION {{yaml_conf[i].conf.datasets[k].val[j] :
               j \in DOMAIN yaml_conf[i].conf.datasets[k].val} :
              k \in DOMAIN yaml_conf[i].conf.datasets}

\* the input dataset names of the i-th task: the loader's name, the names
\* of data_in_multi when the task has it, its data_in otherwise
TaskInputNames(i) ==
    LET datasets == yaml_conf[i].conf.datasets
        param == IF i = 1 THEN "name"
                 ELSE IF "data_in_multi" \in DOMAIN datasets
                      THEN "data_in_multi" ELSE "data_in"
    IN {datasets[param].val[j] : j \in DOMAIN datasets[param].val}

\* the names the step run_tasks is about to run resolves in the registry
ResolvedNames ==
    {StepInfo.data_in[j] : j \in DOMAIN StepInfo.data_in}
        \cup UNION {OutNames(j) : j \in DOMAIN StepInfo.data_out}

\* nothing has been executed yet, the loader included
BeforeFirstStep == loader_calls = 0 /\ idx = 0

\* C30: before the first step executes every dataset name a task of the
\* YAML file gives in data_in, data_out, data_in_multi, data_out_multi or
\* the loader's name is a key of the registry with no value, and the
\* statistics list has one entry per task whose keys are the task's input
\* dataset names; at every step the input and output names the step
\* resolves are keys of the registry already.
C30_NamesAreDeclaredUpFront ==
    /\ BeforeFirstStep =>
          /\ \A i \in DOMAIN yaml_conf : \A name \in ReferencedNames(i) :
                /\ name \in DOMAIN dict_datasets_pipeline
                /\ dict_datasets_pipeline[name] = None
          /\ Len(glob_stats) = Len(yaml_conf)
          /\ \A i \in DOMAIN yaml_conf :
                DOMAIN glob_stats[i] = TaskInputNames(i)
    /\ (pc = "methods" /\ idx < Len(method_funcs)) =>
          ResolvedNames \subseteq DOMAIN dict_datasets_pipeline

\* a pipeline of the loader, a step with two outputs that are not inputs
\* of any task and a step with two inputs, before anything is executed:
\* the four names are keys without a value and the third task's
\* statistics are keyed by its two inputs
C30_Witness ==
    /\ BeforeFirstStep
    /\ Len(yaml_conf) = 3
    /\ yaml_conf[2].conf.method_name = "find_center_360"
    /\ "data_in_multi" \in DOMAIN yaml_conf[3].conf.datasets
    /\ DOMAIN dict_datasets_pipeline = {"tomo", "cor", "overlap", "flats"}
    /\ \A name \in DOMAIN dict_datasets_pipeline :
          dict_datasets_pipeline[name] = None
    /\ DOMAIN glob_stats[3] = {"tomo", "flats"}


(***************************************************************************)
(* Properties of the saver (Spec)                                          *)
(***************************************************************************)
\* this step of run_tasks is a whole run_method call of a saver that
\* returned normally
SaverRan == MethodRan /\ method_funcs[idx + 1].method_name = "save_to_images"

\* the arrays of the saver's input dataset before the call
SaverArrays ==
    LET entry == dict_datasets_pipeline[StepInfo.data_in[1]]
    IN IF IsList(entry) THEN entry.v ELSE <<entry.v>>

\* the i-th of them as the saver is handed it
PassedToSaver(i) ==
    IF StepInfo.should_reslice THEN Resliced(StepInfo, SaverArrays[i])
    ELSE SaverArrays[i]

\* the saver's input entry after the call: its arrays, resliced if the
\* step is marked for a reslice
SaverInputAfter ==
    LET entry == dict_datasets_pipeline[StepInfo.data_in[1]]
    IN IF IsList(entry)
       THEN [entry EXCEPT !.v = [k \in DOMAIN entry.v |-> PassedToSaver(k)]]
       ELSE Single(PassedToSaver(1))

\* C31: a save_to_images step is invoked once per array of its input
\* dataset, in order, on the array as resliced if the step is marked for a
\* reslice; postrun_method is not called; the registry keeps its keys, the
\* input entry holds the (resliced) input arrays and every other entry is
\* unchanged.
C31_SaverOnlySaves ==
    [][SaverRan =>
          /\ Len(wrapper_calls') = Len(wrapper_calls) + Len(SaverArrays)
          /\ SubSeq(wrapper_calls', 1, Len(wrapper_calls)) = wrapper_calls
          /\ \A i \in 1..Len(SaverArrays) :
                LET call == wrapper_calls'[Len(wrapper_calls) + i]
                IN /\ call.method_name = "save_to_images"
                   /\ call.task_idx = idx
                   /\ call.i = i - 1
                   /\ call.data = PassedToSaver(i)
          /\ postrun_calls' = postrun_calls
          /\ DOMAIN dict_datasets_pipeline' = DOMAIN dict_datasets_pipeline
          /\ \A name \in DOMAIN dict_datasets_pipeline :
                dict_datasets_pipeline'[name] =
                    IF name = StepInfo.data_in[1] THEN SaverInputAfter
                    ELSE dict_datasets_pipeline[name]]_vars

\* a saver marked for a reslice has run on the three arrays a sweep left
\* in its input dataset: three calls of the sweep and three of the saver,
\* three reslices, the one postrun_method call of the sweep, and the
\* three arrays of the entry are the resliced ones
C31_Witness ==
    /\ pc = "methods"
    /\ idx = 3
    /\ method_funcs[3].method_name = "save_to_images"
    /\ reslice_bool_list[3]
    /\ Len(wrapper_calls) = 6
    /\ Len(reslice_calls) = 3
    /\ Len(postrun_calls) = 1
    /\ IsList(dict_datasets_pipeline["tomo"])
    /\ \A k \in 1..3 :
          /\ dict_datasets_pipeline["tomo"].v[k].op = "reslice"
          /\ wrapper_calls[3 + k].data = dict_datasets_pipeline["tomo"].v[k]


(***************************************************************************)
(* Properties of the global statistics (Spec)                              *)
(***************************************************************************)
\* the records a step added to its statistics of a dataset
NewStats(name) ==
    SubSeq(glob_stats'[idx + 1][name], Len(glob_stats[idx + 1][name]) + 1,
           Len(glob_stats'[idx + 1][name]))

\* the arrays a step is run on for its first input dataset (the steps that
\* need statistics have one): the entry as it is for a step with a swept
\* parameter, else its arrays
ProcessedArrays ==
    LET entry == dict_datasets_pipeline[StepInfo.data_in[1]]
    IN IF IsList(entry)
          /\ (StepInfo.param_sweep_name = ""
              \/ method_funcs[idx + 1].method_name = "save_to_images")
       THEN entry.v ELSE <<entry.v>>

\* the i-th of them as the step is handed it
PassedToStep(i) ==
    IF StepInfo.should_reslice THEN Resliced(StepInfo, ProcessedArrays[i])
    ELSE ProcessedArrays[i]

\* C32: a step that needs global statistics appends one record to the
\* statistics of its input dataset for each array it processes, in order,
\* the record being computed on the array the step is handed (the resliced
\* one when the step is marked for a reslice), and every call of the step on
\* that array is handed that record as glob_stats; the records already
\* there and the other tasks' statistics are kept.  A step that does not
\* need them leaves the statistics unchanged and is handed none.
C32_OneStatsRecordPerArray ==
    [][MethodRan =>
          LET name == StepInfo.data_in[1]
          IN IF method_funcs[idx + 1].needs_stats
             THEN /\ \A t \in DOMAIN glob_stats :
                        t # idx + 1 => glob_stats'[t] = glob_stats[t]
                  /\ DOMAIN glob_stats'[idx + 1] = DOMAIN glob_stats[idx + 1]
                  /\ SubSeq(glob_stats'[idx + 1][name], 1,
                            Len(glob_stats[idx + 1][name]))
                         = glob_stats[idx + 1][name]
                  /\ Len(NewStats(name)) = Len(ProcessedArrays)
                  /\ \A i \in 1..Len(ProcessedArrays) :
                        NewStats(name)[i] = [stats_of |-> PassedToStep(i)]
                  /\ \A k \in DOMAIN NewWrapperCalls :
                        /\ NewWrapperCalls[k].data
                               = PassedToStep(NewWrapperCalls[k].i + 1)
                        /\ NewWrapperCalls[k].glob_stats
                               = NewStats(name)[NewWrapperCalls[k].i + 1]
             ELSE /\ glob_stats' = glob_stats
                  /\ \A k \in DOMAIN NewWrapperCalls :
                        NewWrapperCalls[k].glob_stats = None]_vars

\* a step that needs global statistics and is marked for a reslice has run
\* on the three arrays a sweep left: its statistics hold three records,
\* each of the resliced array its call was handed
C32_Witness ==
    /\ pc = "methods"
    /\ idx = 3
    /\ method_funcs[3].needs_stats
    /\ reslice_bool_list[3]
    /\ Len(glob_stats[3]["tomo"]) = 3
    /\ Len(wrapper_calls) = 6
    /\ \A k \in 1..3 :
          /\ wrapper_calls[3 + k].data.op = "reslice"
          /\ glob_stats[3]["tomo"][k] = [stats_of |-> wrapper_calls[3 + k].data]
          /\ wrapper_calls[3 + k].glob_stats = glob_stats[3]["tomo"][k]


(***************************************************************************)
(* Properties of the choice of the reslice transport (Spec)                *)
(***************************************************************************)
\* C33: in every step of a run the staging location reslice_dir of the
\* Reslice State stays what it was when run_tasks created the state, and
\* every reslice made so far went through reslice_filebased when it is
\* present and through the in-memory reslice when it is absent.
C33_ResliceStrategyIsFixed ==
    [][/\ reslice_dir' = reslice_dir
       /\ \A k \in DOMAIN reslice_calls' :
             reslice_calls'[k].filebased = (reslice_dir # None)]_vars

\* a run with a staging location is over and its two reslices, ahead of
\* two different steps, were both file-based
C33_Witness ==
    /\ pc = "done"
    /\ reslice_dir # None
    /\ Len(reslice_calls) = 2
    /\ reslice_calls[1].task_idx # reslice_calls[2].task_idx
    /\ \A k \in 1..2 : reslice_calls[k].filebased


(***************************************************************************)
(* Properties of the wrapper methods run by the workers (SpecExecute)      *)
(***************************************************************************)
\* the workers are executing the centering wrapper on a centering method
Centering ==
    /\ pc = "execute"
    /\ exec_call.wrapper_method = "_execute_rotation"
    /\ exec_call.method_name \in CenteringMethods

\* the coordinating worker
Coordinator == mid_rank(comm_size)

\* the calls the worker r made of the wrapped method
MethodCalls(r) ==
    {k \in DOMAIN worker[r].events : worker[r].events[k].ev = "method"}

\* what the coordinating worker's centering method computes, as it is
\* broadcast
CoordinatorValue ==
    Payload(exec_call.method_name,
            method_func(Coordinator, exec_call.method_name))

\* C35: for find_center_vo and find_center_360 only the coordinating worker
\* calls the centering method (once); a worker that is past its own
\* computation has reached the broadcast exactly once, unless it is the
\* coordinating worker and its computation raised; and a worker that has
\* returned returns what the coordinating worker computed, which is not the
\* default 0 of its own local variables.
C35_CoordinatorValueIsReturned ==
    Centering =>
       \A r \in Ranks :
          /\ MethodCalls(r) # {} => r = Coordinator
          /\ Cardinality(MethodCalls(r)) <= 1
          /\ worker[r].bcasts =
                 (IF worker[r].pc \in {"bcast", "returned"} THEN 1 ELSE 0)
          /\ worker[r].pc = "raised" =>
                 r = Coordinator /\ exec_call.raises
          /\ worker[r].pc = "returned" =>
                /\ worker[r].ret = CoordinatorValue
                /\ worker[r].ret[1] # LocalDefaults[1]

\* three workers have returned from find_center_360: each returns the four
\* values the worker 2 computed and the workers 0 and 1 did not call the
\* method
C35_Witness ==
    /\ Centering
    /\ exec_call.method_name = "find_center_360"
    /\ comm_size = 3
    /\ \A r \in Ranks : /\ worker[r].pc = "returned"
                        /\ worker[r].ret = <<31, 32, 33, 34>>
                        /\ worker[r].bcasts = 1
    /\ MethodCalls(0) = {} /\ MethodCalls(1) = {} /\ MethodCalls(2) # {}

\* C36: for every number n >= 1 of workers (up to MaxCommSize) the index
\* int(round(n / 2) + 0.1) is a rank of the communicator, 0 <= index < n;
\* among the workers executing the centering wrapper exactly one is the
\* one that computes, and the root of the broadcast is one of them.
C36_CoordinatorIsARank ==
    /\ \A n \in 1..MaxCommSize : mid_rank(n) \in 0..(n - 1)
    /\ pc = "execute" =>
          /\ Coordinator \in Ranks
          /\ Cardinality({r \in Ranks : Computes(r, comm_size)}) = 1
          /\ (exec_call.wrapper_method = "_execute_rotation"
              /\ \A r \in Ranks : worker[r].pc # "start") =>
                 Cardinality({r \in Ranks : MethodCalls(r) # {}}) = 1

\* a single worker, for which n / 2 is the tie 0.5, has computed the center
\* itself and returned it
C36_Witness ==
    /\ Centering
    /\ comm_size = 1
    /\ mid_rank(comm_size) = 0
    /\ worker[0].pc = "returned"
    /\ MethodCalls(0) # {}
    /\ worker[0].ret[1] = 11

DeviceOf(r) ==
    IF exec_call._id = -1
    THEN worker[r].local_rank % exec_call.num_GPUs
    ELSE exec_call._id

\* C38: with GPU support enabled, a worker that has entered any of the
\* four wrapper methods has first selected its device, then freed the
\* memory pool, then cleared the plan cache, and calls the wrapped method
\* only after these three; the device is the local rank modulo the number
\* of devices, a valid index, when no index was configured, and the
\* configured index otherwise.
C38_DeviceIsSelectedAndCleaned ==
    (pc = "execute" /\ gpu_enabled) =>
       \A r \in Ranks :
          /\ worker[r].self.gpu_id = DeviceOf(r)
          /\ exec_call._id = -1 =>
                 worker[r].self.gpu_id \in 0..(exec_call.num_GPUs - 1)
          /\ worker[r].pc # "start" =>
                /\ Len(worker[r].events) >= 3
                /\ worker[r].events[1] = Event("use_device", DeviceOf(r))
                /\ worker[r].events[2] = Event("free_all_blocks", None)
                /\ worker[r].events[3] = Event("clear_plan_cache", None)
                /\ \A k \in MethodCalls(r) : k = 4

\* with two devices and no configured index, the worker of local rank 2
\* has run a generic method on the device 0 after the cleanup
C38_Witness ==
    /\ pc = "execute"
    /\ gpu_enabled
    /\ exec_call.wrapper_method = "_execute_generic"
    /\ exec_call._id = -1
    /\ exec_call.num_GPUs = 2
    /\ comm_size = 3
    /\ worker[2].local_rank = 2
    /\ worker[2].pc = "returned"
    /\ worker[2].events[1] = Event("use_device", 0)
    /\ worker[2].events[4].ev = "method"


(***************************************************************************)
(* Properties of the workers' reslices (SpecWorkers)                       *)
(***************************************************************************)
\* the Run-Method Context of the step the worker w is about to run
WorkerStepInfo(w) ==
    prerun_method(w.idx, w.method_funcs[w.idx + 1],
                  PrevFunc(w.method_funcs, w.idx), w.reslice_bool_list)

\* the number of arrays the worker w's step is run on, over its input
\* datasets: the arrays of a list entry, one for any other entry, and one
\* for any entry of a step with a swept parameter
InputArrayCount(w) ==
    LET info == WorkerStepInfo(w)
    IN SumSeq([j \in DOMAIN info.data_in |->
                  IF IsList(w.dict[info.data_in[j]])
                     /\ info.param_sweep_name = ""
                  THEN Len(w.dict[info.data_in[j]].v) ELSE 1])

\* the worker r enters run_method in this step, for a call that does not
\* raise
EntersStep(r) ==
    /\ worker[r].pc = "methods"
    /\ worker'[r].pc \in {"methods", "reslice"}
    /\ worker'[r] # worker[r]

\* the calls of the Reslice Transport the step entered will make
CallsOfStep(r) ==
    IF worker'[r].pc = "reslice" THEN worker'[r].pending ELSE <<>>

====
